---- MODULE Spec2Model ----
(***************************************************************************)
(* Event-date cache and retrieval policy of the stock dashboard:           *)
(*   app/utils/normalize.py, app/storage/events_cache.py,                  *)
(*   app/services/events_openai.py, app/utils/date_parse.py.               *)
(*                                                                         *)
(* Text is a sequence of characters: an ASCII character is the            *)
(* one-character string, any other character is the string of its code    *)
(* point, "U+5E74".                                                        *)
(* A Python None is the empty sequence <<>>, a present value x is <<x>>.   *)
(* A Python dict is a function on its keys.                                *)
(***************************************************************************)
EXTENDS Integers, Sequences, FiniteSets, TLC

VARIABLES cache_file, clock, call

vars == <<cache_file, clock, call>>

-----------------------------------------------------------------------------
(* Python values *)

None == <<>>

Some(x) == <<x>>

EmptyDict == <<>>

\* Python truthiness of an optional str / dict value: None, "" and {} are falsy.
Truthy(v) == v # None /\ v[1] # <<>>

\* dict.get(key) on a dict whose values are optional values
DictGet(d, k) == IF k \in DOMAIN d THEN d[k] ELSE None

\* d[k] = v on a dict
DictSet(d, k, v) == [x \in (DOMAIN d) \cup {k} |-> IF x = k THEN v ELSE d[x]]

\* "x or {}"
OrEmptyDict(v) == IF Truthy(v) THEN v[1] ELSE EmptyDict

Min(S) == CHOOSE x \in S : \A y \in S : x <= y

Max(S) == 0 - Min({0 - x : x \in S})

\* F applied to x
Let(x, F(_)) == F(x)

\* the sequence f[1], ..., f[n] with its elements written out
Tuple(f) == f \o <<>>

-----------------------------------------------------------------------------
(* Text *)

\* the characters of an ASCII string literal
Chars(s) == Tuple([i \in 1..Len(s) |-> SubSeq(s, i, i)])

\* the characters the source's literals and the replies are written with
Nen == "U+5E74"

Gatsu == "U+6708"

Nichi == "U+65E5"

FwLParen == "U+FF08"

FwRParen == "U+FF09"

FwBar == "U+FF5C"

FwColon == "U+FF1A"

\* "yotei" (scheduled) and "zenkai" (previous), the two kinds
Yotei == <<"U+4E88", "U+5B9A">>

Zenkai == <<"U+524D", "U+56DE">>

\* "jouhou mishutoku" (information not available), the sentinel word
Sentinel == <<"U+60C5", "U+5831", "U+672A", "U+53D6", "U+5F97">>

\* A literal in shorthand: Y, M, D are nen, gatsu, nichi; [ ] | are the
\* full-width parentheses and bar; QR is yotei, ZK is zenkai; every other
\* character is itself.
JpChar(c) ==
  CASE c = "Y" -> Nen
    [] c = "M" -> Gatsu
    [] c = "D" -> Nichi
    [] c = "[" -> FwLParen
    [] c = "]" -> FwRParen
    [] c = "|" -> FwBar
    [] c = "Q" -> Yotei[1]
    [] c = "R" -> Yotei[2]
    [] c = "Z" -> Zenkai[1]
    [] c = "K" -> Zenkai[2]
    [] OTHER -> c

Jp(s) == Tuple([i \in 1..Len(s) |-> JpChar(SubSeq(s, i, i))])

DigitSeq == <<"0", "1", "2", "3", "4", "5", "6", "7", "8", "9">>

FullWidthDigitSeq ==
  <<"U+FF10", "U+FF11", "U+FF12", "U+FF13", "U+FF14",
    "U+FF15", "U+FF16", "U+FF17", "U+FF18", "U+FF19">>

\* the decimal digits str.isdigit(), \d and int() know: ASCII and full-width
Digits == {DigitSeq[d] : d \in 1..10} \cup {FullWidthDigitSeq[d] : d \in 1..10}

DigitValue(c) ==
  (CHOOSE d \in 1..10 : DigitSeq[d] = c \/ FullWidthDigitSeq[d] = c) - 1

\* str.isspace() characters: ASCII ones and the ideographic space
Whitespace == {" ", "\n", "\t", "\r", "U+3000"}

\* str.strip()
Strip(t) ==
  LET keep == {i \in 1..Len(t) : t[i] \notin Whitespace}
  IN  IF keep = {} THEN <<>> ELSE SubSeq(t, Min(keep), Max(keep))

\* str.isdigit(): non-empty and every character a digit
IsDigit(t) == t # <<>> /\ \A i \in 1..Len(t) : t[i] \in Digits

\* str.zfill(width) of a digit string
Zfill(t, width) ==
  IF Len(t) >= width THEN t ELSE [i \in 1..(width - Len(t)) |-> "0"] \o t

\* padding decided on the text before it is stripped: not the code
NormalizePadsUnstripped(code) ==
  IF IsDigit(code) THEN Zfill(code, 4) ELSE Strip(code)

_normalize_code(code) ==
  LET normalized == Strip(code)
  IN  IF normalized = <<>> THEN <<>>
      ELSE IF IsDigit(normalized) THEN Zfill(normalized, 4)
      ELSE normalized

-----------------------------------------------------------------------------
(* Time.  The clock counts ticks; a timestamp string is kept as what       *)
(* datetime.fromisoformat makes of it: [form |-> "iso"] with its wall time *)
(* and an optional UTC offset, [form |-> "text"] for a string that is not  *)
(* ISO, [form |-> "empty"] for "".                                         *)

TicksPerDay == 4

MAX_CACHE_AGE_DAYS == 183

RECENT_CACHE_DAYS == 31

\* timedelta(days = d)
timedelta(days) == days * TicksPerDay

\* datetime.now(timezone.utc)
utcnow(t) == [wall |-> t, tzinfo |-> Some(0)]

\* datetime.isoformat()
isoformat(dt) == [form |-> "iso", wall |-> dt.wall, off |-> dt.tzinfo]

\* datetime.fromisoformat(s): None stands for ValueError
fromisoformat(s) ==
  IF s.form = "iso" THEN Some([wall |-> s.wall, tzinfo |-> s.off]) ELSE None

\* a - b for two aware datetimes
AwareDiff(a, b) == (a.wall - a.tzinfo[1]) - (b.wall - b.tzinfo[1])

-----------------------------------------------------------------------------
(* Cache store: app/storage/events_cache.py.  The file is absent, holds a  *)
(* JSON table (normalized code -> entry) or holds text that is not JSON.   *)

AbsentFile == [kind |-> "absent", table |-> EmptyDict]

JsonFile(table) == [kind |-> "json", table |-> table]

\* the table read from a file that is not JSON: not the code
LoadCacheReadsAnyText(file) == file.table

_load_cache(file) == IF file.kind = "json" THEN file.table ELSE EmptyDict

_save_cache(cache) == JsonFile(cache)

\* cache.get(normalized): the entry, or None
TableGet(cache, key) == IF key \in DOMAIN cache THEN Some(cache[key]) ELSE None

\* an entry exactly max_age_days old counted as expired: not the code
ExpiredAtWindow(age, max_age_days) == age >= timedelta(max_age_days)

\* events_cache.py:58
Expired(age, max_age_days) == age > timedelta(max_age_days)

\* events_cache.py:55-56
AssumeUtc(dt) == IF dt.tzinfo = None THEN [dt EXCEPT !.tzinfo = Some(0)] ELSE dt

get_cached_events(file, t, code, max_age_days) ==
  LET normalized == _normalize_code(code)
      cache == _load_cache(file)
      entry == TableGet(cache, normalized)
  IN  IF ~Truthy(entry) THEN None
      ELSE
        LET last_updated == DictGet(entry[1], "last_updated")
        IN  IF last_updated = None \/ last_updated[1].form = "empty" THEN None
            ELSE
              LET parsed == fromisoformat(last_updated[1])
              IN  IF parsed = None THEN None
                  ELSE IF Expired(AwareDiff(utcnow(t), AssumeUtc(parsed[1])), max_age_days)
                       THEN None
                  ELSE Some(DictSet(entry[1], "from_cache", TRUE))

\* events_cache.py:71-77
Payload(events, t) ==
  [quarter_dates |-> Some(OrEmptyDict(DictGet(events, "quarter_dates"))),
   rights_date   |-> DictGet(events, "rights_date"),
   raw_response  |-> DictGet(events, "raw_response"),
   error         |-> DictGet(events, "error"),
   last_updated  |-> Some(isoformat(utcnow(t)))]

\* the file written with the new entry alone: not the code
SetCachedFileAlone(file, t, code, events) ==
  _save_cache(DictSet(EmptyDict, _normalize_code(code), Payload(events, t)))

\* the entry stored under the code as it was passed: not the code
SetCachedFileRawKey(file, t, code, events) ==
  _save_cache(DictSet(_load_cache(file), code, Payload(events, t)))

\* the file after set_cached_events(code, events) at time t
SetCachedFile(file, t, code, events) ==
  _save_cache(DictSet(_load_cache(file), _normalize_code(code), Payload(events, t)))

\* the value set_cached_events(code, events) returns
set_cached_events(file, t, code, events) ==
  DictSet(Payload(events, t), "from_cache", FALSE)

-----------------------------------------------------------------------------
(* Regular expressions, as Python's re matches them: a pattern is a        *)
(* sequence of items, each a character class with a repetition range,      *)
(* greedy or lazy; matching backtracks in the order re does.               *)

Class(set) == [neg |-> FALSE, set |-> set]

NotClass(set) == [neg |-> TRUE, set |-> set]

InClass(c, cls) == (c \in cls.set) # cls.neg

Item(cls, lo, hi, greedy) ==
  [cls |-> cls, lo |-> lo, hi |-> hi, greedy |-> greedy, eot |-> FALSE]

Lit(c) == Item(Class({c}), 1, 1, TRUE)

Opt(c) == Item(Class({c}), 0, 1, TRUE)

\* a repetition with no upper limit has hi = -1
Star(cls) == Item(cls, 0, -1, TRUE)

Plus(cls) == Item(cls, 1, -1, TRUE)

LazyPlus(cls) == Item(cls, 1, -1, FALSE)

Rep(cls, lo, hi) == Item(cls, lo, hi, TRUE)

\* $ after .strip(): the end of the text
EndOfText == [cls |-> Class({}), lo |-> 0, hi |-> 0, greedy |-> TRUE, eot |-> TRUE]

Literal(s) == Tuple([i \in 1..Len(s) |-> Lit(SubSeq(s, i, i))])

\* \s, \d and . (any character but a newline)
SpaceClass == Class(Whitespace)

DigitClass == Class(Digits)

DotClass == NotClass({"\n"})

\* how many characters from pos on lie in cls, at most hi
Run(text, pos, cls, hi) ==
  LET last == IF hi < 0 \/ pos + hi - 1 > Len(text) THEN Len(text) ELSE pos + hi - 1
      bad == {i \in pos..last : ~InClass(text[i], cls)}
  IN  IF bad = {} THEN last + 1 - pos ELSE Min(bad) - pos

\* the positions of a text: before each character, and after the last
Positions(text) == 1..(Len(text) + 1)

\* the numbers of characters item it can take at pos
Counts(it, text, pos) ==
  IF it.eot THEN (IF pos = Len(text) + 1 THEN {0} ELSE {})
  ELSE it.lo..Run(text, pos, it.cls, it.hi)

\* the positions where item it can start and leave off at a position of S
Before(it, text, S) ==
  IF S = {} THEN {}
  ELSE {p \in 1..(Max(S) - it.lo) : \E n \in Counts(it, text, p) : p + n \in S}

\* <<V[i], ..., V[j]>>: V[k] is the set of positions from which the items
\* k..j match one after the other and leave off at a position of S; the
\* second half of the items first, then the first half before it
RECURSIVE Viable(_, _, _, _, _)
Viable(pat, text, i, j, S) ==
  IF i = j THEN <<Before(pat[i], text, S)>>
  ELSE Let(Viable(pat, text, ((i + j) \div 2) + 1, j, S),
           LAMBDA second :
             IF second[1] = {} THEN [k \in 1..(((i + j) \div 2) + 1 - i) |-> {}] \o second
             ELSE Viable(pat, text, i, (i + j) \div 2, second[1]) \o second)

\* The number of characters re settles on for item it at pos: the first it
\* tries (the most for a greedy item, the fewest for a lazy one) from where
\* the items after it match, which they do from the positions next
FirstCount(it, text, pos, next) ==
  LET ok == {n \in Counts(it, text, pos) : pos + n \in next}
  IN  IF it.greedy THEN Max(ok) ELSE Min(ok)

\* where each of the items i..j ends in the match re finds for them at pos;
\* viable[k] is the set of positions from which the items from k on match
RECURSIVE Ends(_, _, _, _, _, _)
Ends(pat, text, viable, i, j, pos) ==
  IF i = j THEN <<pos + FirstCount(pat[i], text, pos, viable[i + 1])>>
  ELSE Let(Ends(pat, text, viable, i, (i + j) \div 2, pos),
           LAMBDA first :
             first \o Ends(pat, text, viable, ((i + j) \div 2) + 1, j, first[Len(first)]))

\* the match that starts at the first of the positions starts
MatchIn(pat, text, viable, starts) ==
  IF starts = {} THEN None
  ELSE Some([start |-> Min(starts),
             ends  |-> Ends(pat, text, viable, 1, Len(pat), Min(starts))])

\* the leftmost match among the start positions allowed: where it starts and
\* where each item ends; None when there is none
Match(pat, text, allowed) ==
  Let(Viable(pat, text, 1, Len(pat), Positions(text)) \o <<Positions(text)>>,
      LAMBDA viable : MatchIn(pat, text, viable, viable[1] \cap allowed))

\* pattern.match(text)
ReMatch(pat, text) == Match(pat, text, {1})

\* re.search(pattern, text)
ReSearch(pat, text) == Match(pat, text, Positions(text))

\* the text of the group that spans items i..j of a match m
Group(text, m, i, j) ==
  SubSeq(text, IF i = 1 THEN m.start ELSE m.ends[i - 1], m.ends[j] - 1)

-----------------------------------------------------------------------------
(* Date parser: app/utils/date_parse.py, _parse_date_text.                 *)

\* date_parse.py:61-79
TranslateChar(c) ==
  IF \E d \in 1..10 : FullWidthDigitSeq[d] = c
  THEN DigitSeq[CHOOSE d \in 1..10 : FullWidthDigitSeq[d] = c]
  ELSE CASE c = "U+FF0F" -> "/"
         [] c = "U+FF0D" -> "-"
         [] c = "U+2015" -> "-"
         [] c = "U+30FC" -> "-"
         [] c = "U+FF0E" -> "."
         [] OTHER -> c

Translate(t) == Tuple([i \in 1..Len(t) |-> TranslateChar(t[i])])

\* date_parse.py:81: nen and gatsu become "/", nichi is dropped
ReplaceDateWords(t) ==
  LET NotNichi(c) == c # Nichi
      Slash(kept) == Tuple([i \in 1..Len(kept) |->
                              IF kept[i] = Nen \/ kept[i] = Gatsu THEN "/" ELSE kept[i]])
  IN  Slash(SelectSeq(t, NotNichi))

\* int() of a digit string
RECURSIVE ToInt(_)
ToInt(t) ==
  IF t = <<>> THEN 0
  ELSE 10 * ToInt(SubSeq(t, 1, Len(t) - 1))
       + DigitValue(t[Len(t)])

IsLeap(y) == (y % 4 = 0 /\ y % 100 # 0) \/ y % 400 = 0

DaysInMonth(y, m) ==
  IF m = 2 THEN (IF IsLeap(y) THEN 29 ELSE 28)
  ELSE IF m \in {4, 6, 9, 11} THEN 30 ELSE 31

\* datetime(year, month, day) raises ValueError unless this holds
ValidDate(y, m, d) ==
  /\ y >= 1 /\ y <= 9999
  /\ m >= 1 /\ m <= 12
  /\ d >= 1 /\ d <= DaysInMonth(y, m)

Pad(n, width) ==
  Tuple([i \in 1..width |-> DigitSeq[((n \div (10 ^ (width - i))) % 10) + 1]])

\* dt.strftime("%Y-%m-%d")
Strftime(y, m, d) == Pad(y, 4) \o <<"-">> \o Pad(m, 2) \o <<"-">> \o Pad(d, 2)

\* a month or day number as written: zero-padded to two digits or not
Num(n, padded) == IF padded \/ n >= 10 THEN Pad(n, 2) ELSE Pad(n, 1)

\* the date put together without zero padding: not the code
MatchToIsoUnpadded(text, match_obj, gy, gm, gd) ==
  LET year  == ToInt(Group(text, match_obj, gy, gy))
      month == ToInt(Group(text, match_obj, gm, gm))
      day   == ToInt(Group(text, match_obj, gd, gd))
  IN  IF ValidDate(year, month, day)
      THEN Some(Pad(year, 4) \o <<"-">> \o Num(month, FALSE) \o <<"-">> \o Num(day, FALSE))
      ELSE None

\* date_parse.py:83-89; the groups are items gy, gm, gd of the pattern
_match_to_iso(text, match_obj, gy, gm, gd) ==
  LET year  == ToInt(Group(text, match_obj, gy, gy))
      month == ToInt(Group(text, match_obj, gm, gm))
      day   == ToInt(Group(text, match_obj, gd, gd))
  IN  IF ValidDate(year, month, day) THEN Some(Strftime(year, month, day)) ELSE None

\* date_parse.py:92 with sep "-", "/" and "." put into the pattern as they
\* are: the "." is the regular expression's any-character
SepItem(sep) == IF sep = "." THEN Item(DotClass, 1, 1, TRUE) ELSE Lit(sep)

SepPattern(sep) ==
  <<Rep(DigitClass, 4, 4), Star(SpaceClass), SepItem(sep), Star(SpaceClass),
    Rep(DigitClass, 1, 2), Star(SpaceClass), SepItem(sep), Star(SpaceClass),
    Rep(DigitClass, 1, 2)>>


\* date_parse.py:99
SpacedPattern ==
  <<Rep(DigitClass, 4, 4), Plus(SpaceClass), Rep(DigitClass, 1, 2),
    Plus(SpaceClass), Rep(DigitClass, 1, 2)>>

\* date_parse.py:105
CompactPattern == <<Rep(DigitClass, 4, 4), Rep(DigitClass, 2, 2), Rep(DigitClass, 2, 2)>>

\* one "match = re.search(...); if match: iso = ...; if iso: return iso"
TryPattern(text, try) ==
  Let(ReSearch(try.pat, text),
      LAMBDA match : IF match = None THEN None
                     ELSE _match_to_iso(text, match[1], try.gy, try.gm, try.gd))

\* the patterns of date_parse.py:91-109 in the order they are tried, each
\* with the items that are its year, month and day groups
DatePatterns ==
  <<[pat |-> SepPattern("-"), gy |-> 1, gm |-> 5, gd |-> 9],
    [pat |-> SepPattern("/"), gy |-> 1, gm |-> 5, gd |-> 9],
    [pat |-> SepPattern("."), gy |-> 1, gm |-> 5, gd |-> 9],
    [pat |-> SpacedPattern, gy |-> 1, gm |-> 3, gd |-> 5],
    [pat |-> CompactPattern, gy |-> 1, gm |-> 2, gd |-> 3]>>

\* the date of the first pattern from the i-th on that yields one
RECURSIVE FirstDate(_, _)
FirstDate(text, i) ==
  IF i > Len(DatePatterns) THEN None
  ELSE Let(TryPattern(text, DatePatterns[i]),
           LAMBDA iso : IF iso # None THEN iso ELSE FirstDate(text, i + 1))

_parse_date_text(text0) ==
  IF Strip(text0) = <<>> THEN None
  ELSE
    FirstDate(ReplaceDateWords(Translate(Strip(text0))), 1)

-----------------------------------------------------------------------------
(* Event extractor: app/utils/date_parse.py.                               *)

QUARTER_LABELS == <<"Q1", "Q2", "Q3", "FY">>

\* str.split(sep) on a one-character separator
Split(t, sep) ==
  LET cuts == {i \in 1..Len(t) : t[i] = sep}
      n == Cardinality(cuts)
      Cut(j) == CHOOSE i \in cuts : Cardinality({x \in cuts : x < i}) = j - 1
  IN  Tuple([j \in 1..(n + 1) |->
               SubSeq(t, IF j = 1 THEN 1 ELSE Cut(j - 1) + 1,
                         IF j = n + 1 THEN Len(t) ELSE Cut(j) - 1)])

\* [p.strip() for p in pieces if p.strip()]
StripNonEmpty(pieces) ==
  LET NonEmpty(p) == p # <<>>
  IN  SelectSeq(Tuple([j \in 1..Len(pieces) |-> Strip(pieces[j])]), NonEmpty)

\* ",".join(parts)
RECURSIVE Join(_, _)
Join(parts, sep) ==
  IF parts = <<>> THEN <<>>
  ELSE IF Len(parts) = 1 THEN parts[1]
  ELSE parts[1] \o <<sep>> \o Join(Tail(parts), sep)

LParens == {FwLParen, "("}

RParens == {FwRParen, ")"}

\* date_parse.py:139-141, once per kind word; the groups are
\* date = item 2, kind = items 6..7, url = items 11..n-4
QuarterPattern(kind) ==
  <<Star(SpaceClass), LazyPlus(NotClass(LParens)), Star(SpaceClass),
    Item(Class(LParens), 1, 1, TRUE), Star(SpaceClass)>>
  \o <<Lit(kind[1]), Lit(kind[2])>>
  \o <<Star(SpaceClass), Lit(FwBar), Star(SpaceClass)>>
  \o Literal("http") \o <<Opt("s")>> \o Literal("://")
  \o <<Plus(NotClass(RParens)), Star(SpaceClass),
       Item(Class(RParens), 1, 1, TRUE), Star(SpaceClass), EndOfText>>

QuarterPatterns == <<QuarterPattern(Yotei), QuarterPattern(Zenkai)>>

\* the match of the first pattern from the i-th on that matches
RECURSIVE FirstMatch(_, _, _)
FirstMatch(patterns, text, i) ==
  IF i > Len(patterns) THEN None
  ELSE Let(ReMatch(patterns[i], text),
           LAMBDA match : IF match # None THEN match ELSE FirstMatch(patterns, text, i + 1))

QuarterMatch(text) == FirstMatch(QuarterPatterns, text, 1)

\* date_parse.py:146-155 for a match m
QuarterEvent(text, m) ==
  LET date_text == Strip(Group(text, m, 2, 2))
      kind == Strip(Group(text, m, 6, 7))
      url == Strip(Group(text, m, 11, 19))
  IN  Let(_parse_date_text(date_text),
          LAMBDA parsed :
            [date       |-> IF Truthy(parsed) THEN parsed[1] ELSE date_text,
             date_text  |-> date_text,
             kind       |-> kind,
             source_url |-> Some(url),
             display    |-> date_text \o <<FwLParen>> \o kind \o Chars(", ")
                            \o url \o <<FwRParen>>])

\* None, or the event of one quarter
_parse_quarter_value(value) ==
  Let(Strip(value),
      LAMBDA text :
        Let(QuarterMatch(text),
            LAMBDA match : IF match = None THEN None
                           ELSE Some(QuarterEvent(text, match[1]))))

\* date_parse.py:160; the groups are date = item 2, url = items 6..14
RightsUrlPattern ==
  <<Star(SpaceClass), LazyPlus(NotClass(LParens)), Star(SpaceClass),
    Item(Class(LParens), 1, 1, TRUE), Star(SpaceClass)>>
  \o Literal("http") \o <<Opt("s")>> \o Literal("://")
  \o <<Plus(NotClass(RParens)), Star(SpaceClass),
       Item(Class(RParens), 1, 1, TRUE), Star(SpaceClass), EndOfText>>

RightsEvent(text, url_match) ==
  LET date_text == IF url_match # None THEN Strip(Group(text, url_match[1], 2, 2)) ELSE text
      url == IF url_match # None THEN Some(Strip(Group(text, url_match[1], 6, 14))) ELSE None
  IN  Let(_parse_date_text(date_text),
          LAMBDA parsed :
            [date       |-> IF Truthy(parsed) THEN parsed[1] ELSE date_text,
             date_text  |-> date_text,
             source_url |-> url,
             display    |-> text])

_parse_rights_value(value) ==
  Let(Strip(value),
      LAMBDA text : Let(ReMatch(RightsUrlPattern, text),
                        LAMBDA url_match : RightsEvent(text, url_match)))

EmptyExtract ==
  [quarter_dates |-> EmptyDict, quarter_events |-> EmptyDict,
   rights_date |-> None, rights_event |-> None]

\* None, or the record of the strict format
\* the strict format kept for the quarters that parse: not the code
NewFormatRecordPartial(parsed, rights_raw) ==
  LET ok == {i \in 1..4 : parsed[i] # None}
  IN  IF ok = {} THEN None
      ELSE Some([quarter_dates  |-> [l \in {QUARTER_LABELS[i] : i \in ok} |->
                    parsed[CHOOSE i \in 1..4 : QUARTER_LABELS[i] = l][1].display],
                 quarter_events |-> [l \in {QUARTER_LABELS[i] : i \in ok} |->
                    parsed[CHOOSE i \in 1..4 : QUARTER_LABELS[i] = l][1]],
                 rights_date    |-> None,
                 rights_event   |-> None])

\* date_parse.py:194-205 for the four parsed quarters and the fifth part
NewFormatRecord(parsed, rights_raw) ==
  IF \E i \in 1..4 : parsed[i] = None THEN None
  ELSE Let(\* .lower() changes no character of the sentinel word
           IF rights_raw = Sentinel THEN None ELSE Some(_parse_rights_value(rights_raw)),
           LAMBDA rights_event :
             Some([quarter_dates  |-> [l \in {QUARTER_LABELS[i] : i \in 1..4} |->
                      parsed[CHOOSE i \in 1..4 : QUARTER_LABELS[i] = l][1].display],
                   quarter_events |-> [l \in {QUARTER_LABELS[i] : i \in 1..4} |->
                      parsed[CHOOSE i \in 1..4 : QUARTER_LABELS[i] = l][1]],
                   rights_date    |-> IF rights_event = None THEN None
                                      ELSE Some(rights_event[1].date),
                   rights_event   |-> rights_event]))

\* None, or the record of the strict format
_extract_event_dates_new_format(content) ==
  Let(StripNonEmpty(Split(content, ",")),
      LAMBDA parts :
        IF Len(parts) < 5 THEN None
        ELSE Let(Tuple([i \in 1..4 |-> _parse_quarter_value(parts[i])]),
                 LAMBDA parsed : NewFormatRecord(parsed, parts[5])))

\* str.splitlines(), for the line breaks "\n", "\r" and "\r\n"
\* a line ends at i: at "\n", or at a "\r" that no "\n" follows
LineEnds(t) ==
  {i \in 1..Len(t) : t[i] = "\n" \/ (t[i] = "\r" /\ ~(i < Len(t) /\ t[i + 1] = "\n"))}

SplitLines(t) ==
  LET ends == LineEnds(t)
      n == Cardinality(ends)
      End(j) == CHOOSE i \in ends : Cardinality({x \in ends : x < i}) = j - 1
      \* the text of the j-th line, without its break
      LineText(from, to) ==
        IF to >= from /\ t[to] = "\n" /\ to - 1 >= from /\ t[to - 1] = "\r"
        THEN SubSeq(t, from, to - 2) ELSE SubSeq(t, from, to - 1)
      count == IF ends = {} THEN (IF t = <<>> THEN 0 ELSE 1)
               ELSE IF Max(ends) = Len(t) THEN n ELSE n + 1
  IN  Tuple([j \in 1..count |->
               IF j = n + 1 THEN SubSeq(t, IF ends = {} THEN 1 ELSE Max(ends) + 1, Len(t))
               ELSE LineText(IF j = 1 THEN 1 ELSE End(j - 1) + 1, End(j))])

\* the words the label scan looks for: "dai-N-shihanki", "tsuuki", followed
\* by "kessan"; and "kenri-tsuki saishuubi"
LabelText(label) ==
  CASE label = "Q1" -> <<"U+7B2C", "1", "U+56DB", "U+534A", "U+671F">>
    [] label = "Q2" -> <<"U+7B2C", "2", "U+56DB", "U+534A", "U+671F">>
    [] label = "Q3" -> <<"U+7B2C", "3", "U+56DB", "U+534A", "U+671F">>
    [] label = "FY" -> <<"U+901A", "U+671F">>

Kessan == <<"U+6C7A", "U+7B97">>

RightsLabel == <<"U+6A29", "U+5229", "U+4ED8", "U+304D", "U+6700", "U+7D42", Nichi>>

LiteralText(t) == Tuple([i \in 1..Len(t) |-> Lit(t[i])])

\* date_parse.py:117; group 1 is the last item
LabelPattern(label) ==
  LiteralText(label)
  \o <<Star(SpaceClass), Rep(Class({FwColon, ":"}), 0, 1), Star(SpaceClass),
       Star(DotClass)>>

\* the date the scan takes from line idx, or None (date_parse.py:119-133)
LabelLineDate(lines, idx, label) ==
  LET line == Strip(lines[idx])
      n == Len(label) + 4
  IN  Let(IF line = <<>> THEN None ELSE ReSearch(LabelPattern(label), line),
          LAMBDA match :
            IF match = None THEN None
            ELSE
              Let(Strip(Group(line, match[1], n, n)),
                  LAMBDA remainder :
                    Let(IF remainder # <<>> THEN _parse_date_text(remainder) ELSE None,
                        LAMBDA here :
                          IF Truthy(here) THEN here
                          ELSE IF idx + 1 <= Len(lines) THEN _parse_date_text(lines[idx + 1])
                          ELSE None)))

\* the first line of the scan that yields a date
RECURSIVE ScanLines(_, _, _)
ScanLines(lines, idx, label) ==
  IF idx > Len(lines) THEN None
  ELSE Let(LabelLineDate(lines, idx, label),
           LAMBDA parsed : IF Truthy(parsed) THEN parsed
                           ELSE ScanLines(lines, idx + 1, label))

_extract_date_after_label(content, label) ==
  Let(SplitLines(content), LAMBDA lines : ScanLines(lines, 1, label))

\* date_parse.py:243; group 1 is the last five items
RightsRescuePattern ==
  LiteralText(RightsLabel)
  \o <<Star(SpaceClass), Rep(Class({":", FwColon}), 0, 1), Star(SpaceClass),
       Rep(DigitClass, 4, 4), Lit("-"), Rep(DigitClass, 2, 2), Lit("-"),
       Rep(DigitClass, 2, 2)>>

\* json.loads, for documents made of objects, strings without escape
\* sequences, integers and null; the replies hold no other JSON.  A parse
\* gives [ok, val, next]: whether it succeeded, the value, the position after
\* it.  A value is None for null and Some(v) otherwise; inside a nested
\* object a string is kept as its text.
JsonWs == {" ", "\n", "\t", "\r"}

SkipWs(t, i) == Min({j \in i..Len(t) : t[j] \notin JsonWs} \cup {Len(t) + 1})

JsonFail == [ok |-> FALSE]

JsonOk(val, next) == [ok |-> TRUE, val |-> val, next |-> next]

\* a dict key: the names of the keys the code reads and of the quarter
\* labels; any other key is "other"
JsonKey(text) ==
  IF text = Chars("quarter_dates") THEN "quarter_dates"
  ELSE IF text = Chars("rights_date") THEN "rights_date"
  ELSE IF \E i \in 1..4 : LabelText(QUARTER_LABELS[i]) = text
  THEN QUARTER_LABELS[CHOOSE i \in 1..4 : LabelText(QUARTER_LABELS[i]) = text]
  ELSE "other"

\* the string whose opening quote is at i
JsonString(t, i) ==
  LET close == {j \in (i + 1)..Len(t) : t[j] = "\""}
  IN  IF close = {} THEN JsonFail
      ELSE IF \E j \in (i + 1)..(Min(close) - 1) : t[j] \in {"\n", "\t", "\r", "\\"}
      THEN JsonFail
      ELSE JsonOk(SubSeq(t, i + 1, Min(close) - 1), Min(close) + 1)

\* the integer whose first digit is at i
JsonNumber(t, i) ==
  LET end == Min({j \in i..Len(t) : t[j] \notin {DigitSeq[d] : d \in 1..10}} \cup {Len(t) + 1})
  IN  IF t[i] = "0" /\ end > i + 1 THEN JsonFail
      ELSE JsonOk(Some([number |-> SubSeq(t, i, end - 1)]), end)

RECURSIVE JsonValue(_, _, _)
RECURSIVE JsonMembers(_, _, _, _)
\* the members of an object from the key at i on, acc the ones before
JsonMembers(t, i, depth, acc) ==
  IF i > Len(t) \/ t[i] # "\"" THEN JsonFail
  ELSE
    Let(JsonString(t, i),
        LAMBDA key :
          IF ~key.ok \/ SkipWs(t, key.next) > Len(t) \/ t[SkipWs(t, key.next)] # ":"
          THEN JsonFail
          ELSE
            Let(JsonValue(t, SkipWs(t, key.next) + 1, depth + 1),
                LAMBDA value :
                  IF ~value.ok \/ SkipWs(t, value.next) > Len(t) THEN JsonFail
                  ELSE
                    LET end == SkipWs(t, value.next)
                        kept == IF depth = 0 \/ value.val = None THEN value.val
                                ELSE value.val[1]
                        members == DictSet(acc, JsonKey(key.val), kept)
                    IN  IF t[end] = "}" THEN JsonOk(Some(members), end + 1)
                        ELSE IF t[end] = "," THEN JsonMembers(t, SkipWs(t, end + 1), depth, members)
                        ELSE JsonFail))

\* the value that starts at or after i0
JsonValue(t, i0, depth) ==
  LET i == SkipWs(t, i0)
  IN  IF i > Len(t) THEN JsonFail
      ELSE IF t[i] = "\""
      THEN Let(JsonString(t, i),
               LAMBDA str : IF str.ok THEN JsonOk(Some(str.val), str.next) ELSE JsonFail)
      ELSE IF i + 3 <= Len(t) /\ SubSeq(t, i, i + 3) = Chars("null") THEN JsonOk(None, i + 4)
      ELSE IF \E d \in 1..10 : DigitSeq[d] = t[i] THEN JsonNumber(t, i)
      ELSE IF t[i] = "{"
      THEN IF SkipWs(t, i + 1) <= Len(t) /\ t[SkipWs(t, i + 1)] = "}"
           THEN JsonOk(Some(EmptyDict), SkipWs(t, i + 1) + 1)
           ELSE JsonMembers(t, SkipWs(t, i + 1), depth, EmptyDict)
      ELSE JsonFail

\* date_parse.py:225-227: the dict json.loads(content) gives; None when
\* json.loads raises, or gives a value that has no .get
JsonObject(content) ==
  IF content = <<>> \/ content[1] # "{" THEN None
  ELSE Let(JsonValue(content, 1, 0),
           LAMBDA doc : IF doc.ok /\ SkipWs(content, doc.next) > Len(content)
                        THEN doc.val ELSE None)

\* the labels date_parse.py:235 and 239 scan for: the four quarters', then
\* the rights label
ScanLabels ==
  Tuple([i \in 1..5 |-> IF i = 5 THEN RightsLabel ELSE LabelText(QUARTER_LABELS[i]) \o Kessan])

\* date_parse.py:240-243: the date the rescue pattern finds, or None
RightsRescue(content) ==
  Let(ReSearch(RightsRescuePattern, content),
      LAMBDA rescue :
        IF rescue = None THEN None
        ELSE Some(Group(content, rescue[1],
                        Len(RightsRescuePattern) - 4, Len(RightsRescuePattern))))

\* the scan keeping the text itself as the rights date when no label is
\* found: not the code
LabelScanKeepsText(content, scan) ==
  [quarter_dates  |-> [l \in {QUARTER_LABELS[i] : i \in {k \in 1..4 : Truthy(scan[k])}} |->
                         scan[CHOOSE i \in 1..4 : QUARTER_LABELS[i] = l][1]],
   quarter_events |-> EmptyDict,
   rights_date    |-> IF scan[5] # None THEN scan[5] ELSE Some(content),
   rights_event   |-> None]

\* date_parse.py:234-252 for the dates the scan took for the five labels
LabelScanRecord(content, scan) ==
  [quarter_dates  |-> [l \in {QUARTER_LABELS[i] : i \in {k \in 1..4 : Truthy(scan[k])}} |->
                         scan[CHOOSE i \in 1..4 : QUARTER_LABELS[i] = l][1]],
   quarter_events |-> EmptyDict,
   rights_date    |-> IF scan[5] # None THEN scan[5] ELSE RightsRescue(content),
   rights_event   |-> None]

_extract_event_dates_legacy(content) ==
  LET parts == StripNonEmpty(Split(content, ","))
  IN  IF Len(parts) >= 5
      THEN [quarter_dates  |-> [l \in {QUARTER_LABELS[i] : i \in 1..4} |->
                                  parts[CHOOSE i \in 1..4 : QUARTER_LABELS[i] = l]],
            quarter_events |-> EmptyDict,
            rights_date    |-> Some(parts[5]),
            rights_event   |-> None]
      ELSE IF JsonObject(content) # None
      THEN [quarter_dates  |-> OrEmptyDict(DictGet(JsonObject(content)[1], "quarter_dates")),
            quarter_events |-> EmptyDict,
            rights_date    |-> DictGet(JsonObject(content)[1], "rights_date"),
            rights_event   |-> None]
      ELSE
        Let(Tuple([i \in 1..5 |-> _extract_date_after_label(content, ScanLabels[i])]),
            LAMBDA scan : LabelScanRecord(content, scan))

_extract_event_dates(content0) ==
  Let(Strip(content0),
      LAMBDA content :
        IF content = <<>> THEN EmptyExtract
        ELSE Let(_extract_event_dates_new_format(content),
                 LAMBDA new_format : IF new_format # None THEN new_format[1]
                                     ELSE _extract_event_dates_legacy(content)))

-----------------------------------------------------------------------------
(* External lookup: app/services/events_openai.py.  The collaborator's     *)
(* answer to the one request of a call is the input env: whether the       *)
(* client library and API key are there, the exception the request raises  *)
(* (None: it returns) and the message content of the response.  An error   *)
(* string is [msg, arg]: the message and the code or exception text in it. *)

\* message content: a str (or None), or a list of blocks, each a text or a
\* block the function skips (None)
MsgStr(text) == [is_list |-> FALSE, parts |-> <<Some(text)>>]

MsgNone == [is_list |-> FALSE, parts |-> <<None>>]

MsgList(parts) == [is_list |-> TRUE, parts |-> parts]

RECURSIVE JoinParts(_)
JoinParts(parts) ==
  IF parts = <<>> THEN <<>>
  ELSE (IF Head(parts) = None THEN <<>> ELSE Head(parts)[1]) \o JoinParts(Tail(parts))

_collect_text_content(message_content) == Strip(JoinParts(message_content.parts))

\* a reply with one line per code: five fields for 7203, two for 0072
ReplyText ==
  Jp("7203: 2025Y8M1D[QR|http://a],2025/11/1[ZK|http://b],2026/2/4[QR|https://c],")
  \o Jp("2026.5.14(QR|http://d),2026Y3M27D[http://e]\n0072: x,y")

Unavailable == [available |-> FALSE, exc |-> None, content |-> MsgNone]

Raises(exc) == [available |-> TRUE, exc |-> Some(exc), content |-> MsgNone]

Replies(message_content) == [available |-> TRUE, exc |-> None, content |-> message_content]

\* the message contents the collaborator answers with
Contents == {MsgStr(ReplyText), MsgNone}

\* line.split(":", 1): the text before the first colon and the text after it
BeforeColon(line) == SubSeq(line, 1, Min({i \in 1..Len(line) : line[i] = ":"}) - 1)

AfterColon(line) == SubSeq(line, Min({i \in 1..Len(line) : line[i] = ":"}) + 1, Len(line))

\* events_openai.py:244-245: the values of a line, stripped, without the empty ones
LineValues(line) == StripNonEmpty(Split(AfterColon(line), ","))

\* events_openai.py:252: the text a line of five values or more hands on
LineContent(values) == Join(SubSeq(values, 1, 5), ",")

\* events_openai.py:238: the lines of a reply that have text
ReplyLines(content) == StripNonEmpty(SplitLines(content))

\* The texts the two lookups hand to _extract_event_dates for these contents,
\* each with what it returns: the function is computed once for each.
ExtractorTexts ==
  LET texts == {_collect_text_content(c) : c \in Contents}
      lines == UNION {{ReplyLines(t)[i] : i \in 1..Len(ReplyLines(t))} : t \in texts}
      colon == {l \in lines : \E i \in 1..Len(l) : l[i] = ":"}
  IN  texts \cup {LineContent(LineValues(l)) : l \in {x \in colon : Len(LineValues(x)) >= 5}}

ExtractorTable == {<<t, _extract_event_dates(t)>> : t \in ExtractorTexts}

\* _extract_event_dates(content), looked up where it has been computed
ExtractEventDates(content) ==
  IF content \in ExtractorTexts
  THEN (CHOOSE p \in ExtractorTable : p[1] = content)[2]
  ELSE _extract_event_dates(content)

CACHE_ONLY_MODE == "cache_only"

CACHE_FIRST_MODE == "cache_first"

ALWAYS_AI_MODE == "always_ai"

ErrorText(msg, arg) == Some([msg |-> msg, arg |-> arg])

\* what a function hands back: its value, or the exception it lets through,
\* with the lookups it made (kind, codes, whether a request was sent)
Return(val, lookups) == [exc |-> None, val |-> val, lookups |-> lookups]

Raise(exc, lookups) == [exc |-> exc, val |-> EmptyDict, lookups |-> lookups]

Lookup(kind, codes, sent) == [kind |-> kind, codes |-> codes, sent |-> sent]

_format_openai_missing ==
  [quarter_dates  |-> Some(EmptyDict),
   quarter_events |-> Some(EmptyDict),
   rights_date    |-> None,
   rights_event   |-> None,
   raw_response   |-> None,
   error          |-> ErrorText("OpenAI API unavailable", <<>>),
   last_updated   |-> None,
   from_cache     |-> FALSE]

\* response.model_dump_json(...): the response as JSON text
ModelDumpJson(message_content) ==
  Chars("{") \o JoinParts(message_content.parts) \o Chars("}")

_finalize_result(data, from_cache) ==
  [quarter_dates  |-> Some(OrEmptyDict(DictGet(data, "quarter_dates"))),
   quarter_events |-> Some(OrEmptyDict(DictGet(data, "quarter_events"))),
   rights_date    |-> DictGet(data, "rights_date"),
   rights_event   |-> DictGet(data, "rights_event"),
   raw_response   |-> DictGet(data, "raw_response"),
   error          |-> DictGet(data, "error"),
   last_updated   |-> DictGet(data, "last_updated"),
   from_cache     |-> from_cache]

\* the record for no data marked as not from the cache: not the code
EmptyCacheResultNotFromCache(message) ==
  [quarter_dates  |-> Some(EmptyDict),
   quarter_events |-> Some(EmptyDict),
   rights_date    |-> None,
   rights_event   |-> None,
   raw_response   |-> None,
   error          |-> ErrorText(message, <<>>),
   last_updated   |-> None,
   from_cache     |-> FALSE]

_empty_cache_result(message) ==
  [quarter_dates  |-> Some(EmptyDict),
   quarter_events |-> Some(EmptyDict),
   rights_date    |-> None,
   rights_event   |-> None,
   raw_response   |-> None,
   error          |-> ErrorText(message, <<>>),
   last_updated   |-> None,
   from_cache     |-> TRUE]

\* the record both lookups build: events_openai.py:103-110, 199-207, 214-222
AiRecord(extracted, raw_response, error) ==
  [quarter_dates  |-> Some(OrEmptyDict(Some(extracted.quarter_dates))),
   quarter_events |-> Some(OrEmptyDict(Some(extracted.quarter_events))),
   rights_date    |-> extracted.rights_date,
   rights_event   |-> extracted.rights_event,
   raw_response   |-> raw_response,
   error          |-> error]

\* the exception of the request let through: not the code
SingleOnExceptionRaises(exc, code) ==
  Raise(Some(exc), <<Lookup("single", <<code>>, TRUE)>>)

\* events_openai.py:145-146
SingleOnException(exc, code) ==
  Return(AiRecord(EmptyExtract, None, ErrorText("exception", exc)),
         <<Lookup("single", <<code>>, TRUE)>>)

get_events_by_openai(code, env) ==
  IF ~env.available THEN Return(_format_openai_missing, <<Lookup("single", <<code>>, FALSE)>>)
  ELSE IF env.exc # None THEN SingleOnException(env.exc[1], code)
  ELSE
    LET content == _collect_text_content(env.content)
    IN  Return(
          IF content = <<>>
          THEN AiRecord(EmptyExtract, Some(ModelDumpJson(env.content)),
                        ErrorText("OpenAI response contained no text content.", <<>>))
          ELSE AiRecord(ExtractEventDates(content), Some(content), None),
          <<Lookup("single", <<code>>, TRUE)>>)

\* {code: record for code in codes}
DictOver(codes, record) == [c \in {codes[i] : i \in 1..Len(codes)} |-> record]

\* an empty mapping when the request raises: not the code
BatchOnExceptionDrops(exc, codes) == Return(EmptyDict, <<Lookup("batch", codes, TRUE)>>)

\* events_openai.py:198-209
BatchOnException(exc, codes) ==
  Return(DictOver(codes, AiRecord(EmptyExtract, None, ErrorText("exception", exc))),
         <<Lookup("batch", codes, TRUE)>>)

\* events_openai.py:248-250: too few values, only the error is set
ShortLine(record, code_part) ==
  [record EXCEPT !.error = ErrorText("values missing", code_part)]

\* one pass of the loop body at events_openai.py:239-260
ApplyLine(results, line, raw_response) ==
  IF ~(\E i \in 1..Len(line) : line[i] = ":") THEN results
  ELSE
    LET code_part == Strip(BeforeColon(line))
        values == LineValues(line)
    IN  IF code_part \notin DOMAIN results THEN results
        ELSE IF Len(values) < 5
        THEN [results EXCEPT ![code_part] = ShortLine(@, code_part)]
        ELSE [results EXCEPT ![code_part] =
                AiRecord(ExtractEventDates(LineContent(values)), raw_response, None)]

RECURSIVE ApplyLines(_, _, _)
ApplyLines(results, lines, raw_response) ==
  IF lines = <<>> THEN results
  ELSE ApplyLines(ApplyLine(results, Head(lines), raw_response), Tail(lines), raw_response)

\* every code gets the error record as soon as one code's line is bad: not
\* the code
ParseBatchAllOrNothing(codes, content, raw_response) ==
  LET results == [c \in {codes[i] : i \in 1..Len(codes)} |->
                    AiRecord(EmptyExtract, raw_response, ErrorText("data unreadable", c))]
      parsed == ApplyLines(results, ReplyLines(content), raw_response)
  IN  IF \E c \in DOMAIN parsed : parsed[c].error # None THEN results ELSE parsed

\* the mapping the batch lookup builds from a reply that has text
ParseBatch(codes, content, raw_response) ==
  LET results == [c \in {codes[i] : i \in 1..Len(codes)} |->
                    AiRecord(EmptyExtract, raw_response, ErrorText("data unreadable", c))]
  IN  ApplyLines(results, ReplyLines(content), raw_response)

get_events_by_openai_batch(codes, env) ==
  IF ~env.available
  THEN Return(DictOver(codes, _format_openai_missing), <<Lookup("batch", codes, FALSE)>>)
  ELSE IF env.exc # None THEN BatchOnException(env.exc[1], codes)
  ELSE
    LET raw_response == Some(ModelDumpJson(env.content))
        content == _collect_text_content(env.content)
    IN  Return(
          IF content = <<>>
          THEN DictOver(codes, AiRecord(EmptyExtract, raw_response,
                          ErrorText("OpenAI response contained no text content.", <<>>)))
          ELSE ParseBatch(codes, content, raw_response),
          <<Lookup("batch", codes, TRUE)>>)

-----------------------------------------------------------------------------
(* Retrieval policy: app/services/events_openai.py.  A policy function     *)
(* hands back its value with the file it leaves, the lookups it made and   *)
(* the codes it wrote, in order.                                           *)

Done(val, file, lookups, writes) ==
  [exc |-> None, val |-> val, file |-> file, lookups |-> lookups, writes |-> writes]

Failed(exc, file, lookups, writes) ==
  [exc |-> exc, val |-> EmptyDict, file |-> file, lookups |-> lookups, writes |-> writes]

\* events_openai.py:279: batch_results.get(code) or _format_openai_missing()
BatchResultFor(batch_results, code) ==
  IF code \in DOMAIN batch_results /\ batch_results[code] # EmptyDict
  THEN batch_results[code] ELSE _format_openai_missing

\* the loop at events_openai.py:278-281 from the i-th code on
RECURSIVE StoreBatch(_, _, _, _, _, _)
StoreBatch(file, t, codes, batch_results, i, final_results) ==
  IF i > Len(codes) THEN [file |-> file, final_results |-> final_results]
  ELSE
    Let(BatchResultFor(batch_results, codes[i]),
        LAMBDA ai_result :
          StoreBatch(SetCachedFile(file, t, codes[i], ai_result), t, codes, batch_results, i + 1,
                     DictSet(final_results, _normalize_code(codes[i]),
                             _finalize_result(set_cached_events(file, t, codes[i], ai_result),
                                              FALSE))))

\* events_openai.py:270-274
FetchSingle(file, t, code, env) ==
  Let(get_events_by_openai(code, env),
      LAMBDA ai :
        IF ai.exc # None THEN Failed(ai.exc, file, ai.lookups, <<>>)
        ELSE Done(DictSet(EmptyDict, _normalize_code(code),
                          _finalize_result(set_cached_events(file, t, code, ai.val), FALSE)),
                  SetCachedFile(file, t, code, ai.val), ai.lookups, <<_normalize_code(code)>>))

\* one single-code lookup for each code of the list: not the code
RECURSIVE FetchOneByOne(_, _, _, _)
FetchOneByOne(file, t, codes, env) ==
  IF codes = <<>> THEN Done(EmptyDict, file, <<>>, <<>>)
  ELSE Let(FetchSingle(file, t, Head(codes), env),
           LAMBDA first :
             Let(FetchOneByOne(first.file, t, Tail(codes), env),
                 LAMBDA rest :
                   Done([c \in DOMAIN first.val \cup DOMAIN rest.val |->
                           IF c \in DOMAIN rest.val THEN rest.val[c] ELSE first.val[c]],
                        rest.file, first.lookups \o rest.lookups,
                        first.writes \o rest.writes)))

\* events_openai.py:276-282
FetchBatch(file, t, codes, env) ==
  Let(get_events_by_openai_batch(codes, env),
      LAMBDA batch :
        IF batch.exc # None THEN Failed(batch.exc, file, batch.lookups, <<>>)
        ELSE Let(StoreBatch(file, t, codes, batch.val, 1, EmptyDict),
                 LAMBDA stored :
                   Done(stored.final_results, stored.file, batch.lookups,
                        [i \in 1..Len(codes) |-> _normalize_code(codes[i])])))

_fetch_via_ai(file, t, codes, env) ==
  IF codes = <<>> THEN Done(EmptyDict, file, <<>>, <<>>)
  ELSE IF Len(codes) = 1 THEN FetchSingle(file, t, codes[1], env)
  ELSE FetchBatch(file, t, codes, env)

\* a record with an error returned without being stored: not the code
LookupAndStoreSkipsErrors(file, t, normalized, env) ==
  Let(get_events_by_openai(normalized, env),
      LAMBDA ai :
        IF ai.exc # None THEN Failed(ai.exc, file, ai.lookups, <<>>)
        ELSE IF ai.val.error # None
        THEN Done(_finalize_result(ai.val, FALSE), file, ai.lookups, <<>>)
        ELSE Done(_finalize_result(set_cached_events(file, t, normalized, ai.val), FALSE),
                  SetCachedFile(file, t, normalized, ai.val), ai.lookups, <<normalized>>))

\* events_openai.py:301-303 and 306-308
LookupAndStore(file, t, normalized, env) ==
  Let(get_events_by_openai(normalized, env),
      LAMBDA ai :
        IF ai.exc # None THEN Failed(ai.exc, file, ai.lookups, <<>>)
        ELSE Done(_finalize_result(set_cached_events(file, t, normalized, ai.val), FALSE),
                  SetCachedFile(file, t, normalized, ai.val), ai.lookups, <<normalized>>))

\* cache_only reading with the short window of cache_first: not the code
CacheOnlyRecentWindow(file, t, normalized) ==
  Let(get_cached_events(file, t, normalized, RECENT_CACHE_DAYS),
      LAMBDA cached :
        IF Truthy(cached) THEN Done(_finalize_result(cached[1], TRUE), file, <<>>, <<>>)
        ELSE Done(_empty_cache_result("no cache"), file, <<>>, <<>>))

\* cache_only that accepts an entry only when it was stored at this very
\* instant: not the code
CacheOnlyZeroWindow(file, t, normalized) ==
  Let(get_cached_events(file, t, normalized, 0),
      LAMBDA cached :
        IF Truthy(cached) THEN Done(_finalize_result(cached[1], TRUE), file, <<>>, <<>>)
        ELSE Done(_empty_cache_result("no cache"), file, <<>>, <<>>))

\* events_openai.py:291-295
CacheOnly(file, t, normalized) ==
  Let(get_cached_events(file, t, normalized, MAX_CACHE_AGE_DAYS),
      LAMBDA cached :
        IF Truthy(cached) THEN Done(_finalize_result(cached[1], TRUE), file, <<>>, <<>>)
        ELSE Done(_empty_cache_result("no cache"), file, <<>>, <<>>))

\* cache_first that returns what it looked up without storing it: not the code
CacheFirstNoStore(file, t, normalized, recent_days, env) ==
  Let(get_cached_events(file, t, normalized, recent_days),
      LAMBDA cached :
        IF Truthy(cached) THEN Done(_finalize_result(cached[1], TRUE), file, <<>>, <<>>)
        ELSE Let(get_events_by_openai(normalized, env),
                 LAMBDA ai : Done(_finalize_result(ai.val, FALSE), file, ai.lookups, <<>>)))

\* events_openai.py:297-303
CacheFirst(file, t, normalized, recent_days, env) ==
  Let(get_cached_events(file, t, normalized, recent_days),
      LAMBDA cached :
        IF Truthy(cached) THEN Done(_finalize_result(cached[1], TRUE), file, <<>>, <<>>)
        ELSE LookupAndStore(file, t, normalized, env))

\* always_ai that serves a recent entry from the cache: not the code
AlwaysAiReadsCache(file, t, normalized, env) ==
  CacheFirst(file, t, normalized, RECENT_CACHE_DAYS, env)

\* events_openai.py:305-308
AlwaysAi(file, t, normalized, env) == LookupAndStore(file, t, normalized, env)

get_events_info(file, t, code, mode, recent_days, env) ==
  Let(_normalize_code(code),
      LAMBDA normalized :
        IF normalized = <<>> THEN Done(_empty_cache_result("invalid code"), file, <<>>, <<>>)
        ELSE IF mode = CACHE_ONLY_MODE THEN CacheOnly(file, t, normalized)
        ELSE IF mode = CACHE_FIRST_MODE THEN CacheFirst(file, t, normalized, recent_days, env)
        ELSE IF mode = ALWAYS_AI_MODE THEN AlwaysAi(file, t, normalized, env)
        ELSE Done(_empty_cache_result("unknown mode"), file, <<>>, <<>>))

\* the empty codes kept in the list: not the code
RECURSIVE NormalizedCodesKeepsEmpty(_, _)
NormalizedCodesKeepsEmpty(codes, seen) ==
  IF codes = <<>> THEN <<>>
  ELSE LET norm == _normalize_code(Head(codes))
       IN  IF norm \in seen THEN NormalizedCodesKeepsEmpty(Tail(codes), seen)
           ELSE <<norm>> \o NormalizedCodesKeepsEmpty(Tail(codes), seen \cup {norm})

\* events_openai.py:319-326: normalized, without repeats, first seen first
RECURSIVE NormalizedCodes(_, _)
NormalizedCodes(codes, seen) ==
  IF codes = <<>> THEN <<>>
  ELSE LET norm == _normalize_code(Head(codes))
       IN  IF norm = <<>> \/ norm \in seen THEN NormalizedCodes(Tail(codes), seen)
           ELSE <<norm>> \o NormalizedCodes(Tail(codes), seen \cup {norm})

\* events_openai.py:332
FetchCacheOnly(file, t, normalized_codes, recent_days, env) ==
  Done([c \in {normalized_codes[i] : i \in 1..Len(normalized_codes)} |->
          get_events_info(file, t, c, CACHE_ONLY_MODE, recent_days, env).val],
       file, <<>>, <<>>)

\* every code a target of the lookup, cached or not: not the code
AllTargets(file, t, normalized_codes, recent_days) == normalized_codes

\* events_openai.py:337-342: the codes that miss the cache, in order
AiTargets(file, t, normalized_codes, recent_days) ==
  LET Miss(c) == ~Truthy(get_cached_events(file, t, c, recent_days))
  IN  SelectSeq(normalized_codes, Miss)

\* events_openai.py:336-342: the results of the codes that hit the cache
CacheHits(file, t, normalized_codes, recent_days, ai_targets) ==
  [c \in {normalized_codes[i] : i \in 1..Len(normalized_codes)}
          \ {ai_targets[i] : i \in 1..Len(ai_targets)} |->
     _finalize_result(get_cached_events(file, t, c, recent_days)[1], TRUE)]

\* events_openai.py:344-345: results.update(...)
DictUpdate(results, fetched) ==
  [c \in DOMAIN results \cup DOMAIN fetched |->
     IF c \in DOMAIN fetched THEN fetched[c] ELSE results[c]]

\* events_openai.py:334-345
FetchCacheFirst(file, t, normalized_codes, recent_days, env) ==
  Let(AiTargets(file, t, normalized_codes, recent_days),
      LAMBDA ai_targets :
        Let(CacheHits(file, t, normalized_codes, recent_days, ai_targets),
            LAMBDA results :
              IF ai_targets = <<>> THEN Done(results, file, <<>>, <<>>)
              ELSE Let(_fetch_via_ai(file, t, ai_targets, env),
                       LAMBDA fetched :
                         IF fetched.exc # None THEN fetched
                         ELSE Done(DictUpdate(results, fetched.val),
                                   fetched.file, fetched.lookups, fetched.writes))))

\* events_openai.py:347-348
FetchAlwaysAi(file, t, normalized_codes, env) == _fetch_via_ai(file, t, normalized_codes, env)

\* a mode that is none of the three taken as always_ai: not the code
FetchDefaultsToAlwaysAi(file, t, codes, mode, recent_days, env) ==
  Let(NormalizedCodes(codes, {}),
      LAMBDA normalized_codes :
        IF normalized_codes = <<>> THEN Done(EmptyDict, file, <<>>, <<>>)
        ELSE IF mode = CACHE_ONLY_MODE
        THEN FetchCacheOnly(file, t, normalized_codes, recent_days, env)
        ELSE IF mode = CACHE_FIRST_MODE
        THEN FetchCacheFirst(file, t, normalized_codes, recent_days, env)
        ELSE FetchAlwaysAi(file, t, normalized_codes, env))

fetch_events_info_for_codes(file, t, codes, mode, recent_days, env) ==
  Let(NormalizedCodes(codes, {}),
      LAMBDA normalized_codes :
        IF normalized_codes = <<>> THEN Done(EmptyDict, file, <<>>, <<>>)
        ELSE IF mode = CACHE_ONLY_MODE
        THEN FetchCacheOnly(file, t, normalized_codes, recent_days, env)
        ELSE IF mode = CACHE_FIRST_MODE
        THEN FetchCacheFirst(file, t, normalized_codes, recent_days, env)
        ELSE IF mode = ALWAYS_AI_MODE THEN FetchAlwaysAi(file, t, normalized_codes, env)
        ELSE Done([c \in {normalized_codes[i] : i \in 1..Len(normalized_codes)} |->
                     _empty_cache_result("unknown mode")], file, <<>>, <<>>))

-----------------------------------------------------------------------------
(* The program: a caller makes one call at a time of the two policy        *)
(* functions and takes its result; the clock ticks between calls.  The     *)
(* cache file starts absent or as earlier runs left it.                    *)

MaxTicks == 1

MaxCodes == 2

StartClock == timedelta(MAX_CACHE_AGE_DAYS)

Envs == {Unavailable, Raises(Chars("timeout"))} \cup {Replies(c) : c \in Contents}

Modes == {CACHE_ONLY_MODE, CACHE_FIRST_MODE, ALWAYS_AI_MODE, "other"}

RawCodes == {Chars("7203"), Chars(" 7203 "), Chars("72")}

\* the windows a caller passes: the default, and a longer one in cache_first
\* mode, the only mode that reads recent_days
RecentDays(mode) ==
  IF mode = CACHE_FIRST_MODE THEN {RECENT_CACHE_DAYS, MAX_CACHE_AGE_DAYS}
  ELSE {RECENT_CACHE_DAYS}

\* the lists of at most n raw codes, each raw code at most once: two of them
\* are the same code after normalization
RECURSIVE CodeLists(_)
CodeLists(n) ==
  IF n = 0 THEN {<<>>}
  ELSE CodeLists(n - 1)
       \cup UNION {{Append(l, c) : c \in RawCodes \ {l[i] : i \in 1..Len(l)}} :
                     l \in {x \in CodeLists(n - 1) : Len(x) = n - 1}}

\* an entry an earlier run wrote, age_days before the start
OldEntry(age_days) ==
  Payload(get_events_by_openai(Chars("7203"), Replies(MsgStr(ReplyText))).val,
          StartClock - timedelta(age_days))

OldEntries == {OldEntry(RECENT_CACHE_DAYS), OldEntry(MAX_CACHE_AGE_DAYS)}

Keys == {_normalize_code(c) : c \in RawCodes}

InitFiles ==
  {AbsentFile}
  \cup {JsonFile(table) : table \in
         UNION {[ks -> OldEntries] : ks \in (SUBSET Keys) \ {{}}}}

Idle == [op |-> "idle"]

CallRecord(op, codes, mode, recent_days, env, out) ==
  [op |-> op, codes |-> codes, mode |-> mode, recent_days |-> recent_days,
   env |-> IF out.lookups = <<>> THEN None ELSE Some(env),
   before |-> cache_file, at |-> clock,
   val |-> out.val, lookups |-> out.lookups, writes |-> out.writes, exc |-> out.exc]

Init ==
  /\ cache_file \in InitFiles
  /\ clock = StartClock
  /\ call = Idle

GetEventsInfo ==
  /\ call = Idle
  /\ \E code \in RawCodes \cup {<<>>}, mode \in Modes, env \in Envs :
     \E recent_days \in RecentDays(mode) :
     \E out \in {get_events_info(cache_file, clock, code, mode, recent_days, env)} :
       /\ cache_file' = out.file
       /\ call' = CallRecord("get_events_info", <<code>>, mode, recent_days, env, out)
  /\ UNCHANGED clock

FetchEventsInfoForCodes ==
  /\ call = Idle
  /\ \E codes \in CodeLists(MaxCodes), mode \in Modes, env \in Envs :
     \E recent_days \in RecentDays(mode) :
     \E out \in {fetch_events_info_for_codes(cache_file, clock, codes, mode, recent_days, env)} :
       /\ cache_file' = out.file
       /\ call' = CallRecord("fetch_events_info_for_codes", codes, mode, recent_days, env, out)
  /\ UNCHANGED clock

\* the caller takes the result
TakeResult ==
  /\ call # Idle
  /\ call' = Idle
  /\ UNCHANGED <<cache_file, clock>>

Tick ==
  /\ call = Idle
  /\ clock < StartClock + MaxTicks
  /\ clock' = clock + 1
  /\ UNCHANGED <<cache_file, call>>

Next == GetEventsInfo \/ FetchEventsInfoForCodes \/ TakeResult \/ Tick

Spec == Init /\ [][Next]_vars

-----------------------------------------------------------------------------
(* What a finished call shows.  The claims below are about the call whose  *)
(* result the caller has not yet taken: call holds its arguments, the file *)
(* and the clock it started with, what it returned and the lookups and     *)
(* writes it made.                                                         *)

\* the codes the call asks for: normalized, the empty ones and repeats left out
Requested == NormalizedCodes(call.codes, {})

RequestedSet == {Requested[i] : i \in 1..Len(Requested)}

\* the record the call returned for a requested code
ResultFor(c) == IF call.op = "get_events_info" THEN call.val ELSE call.val[c]

\* the offset of a stored timestamp, 0 when it has none
OffsetOf(stamp) == IF stamp.off = None THEN 0 ELSE stamp.off[1]

\* the file f holds, at time t, an entry under key that is at most days old
FreshIn(f, t, key, days) ==
  /\ f.kind = "json"
  /\ key \in DOMAIN f.table
  /\ f.table[key] # EmptyDict
  /\ LET stamp == DictGet(f.table[key], "last_updated")
     IN  /\ stamp # None
         /\ stamp[1].form = "iso"
         /\ t - (stamp[1].wall - OffsetOf(stamp[1])) <= days * TicksPerDay

\* the same of the file and the time the call started with
FreshBefore(key, days) == FreshIn(call.before, call.at, key, days)

\* the fields an entry of the cache file has
StoredFields == {"quarter_dates", "rights_date", "raw_response", "error", "last_updated"}

\* a record carries what the entry under key holds in the file f
CarriesEntry(record, f, key) ==
  \A k \in StoredFields \cap DOMAIN f.table[key] : record[k] = f.table[key][k]

\* a record has no dates at all
NoDates(record) ==
  /\ record.quarter_dates = Some(EmptyDict)
  /\ record.quarter_events = Some(EmptyDict)
  /\ record.rights_date = None
  /\ record.rights_event = None

\* the requested codes with no entry fresh enough for the call's recent_days
Misses == LET Miss(c) == ~FreshBefore(c, call.recent_days) IN SelectSeq(Requested, Miss)

\* the call wrote its record for c: the file holds it, stamped with the call's time
Wrote(c) ==
  /\ cache_file.kind = "json"
  /\ c \in DOMAIN cache_file.table
  /\ cache_file.table[c].last_updated = Some(isoformat(utcnow(call.at)))
  /\ CarriesEntry(ResultFor(c), cache_file, c)

\* C1: in cache_only mode neither function makes a lookup or writes the file;
\* each requested code gets the cached record with from_cache = TRUE when the
\* file holds an entry at most MAX_CACHE_AGE_DAYS (183) days old, and the
\* "no cache" error record without dates otherwise.  (A code is one whose
\* normalized form is not empty; the empty one is the invalid code.)
C1_CacheOnlyIsReadOnly ==
  (call.op # "idle" /\ call.mode = CACHE_ONLY_MODE) =>
    /\ call.lookups = <<>>
    /\ call.writes = <<>>
    /\ cache_file = call.before
    /\ call.exc = None
    /\ \A c \in RequestedSet :
         IF FreshBefore(c, MAX_CACHE_AGE_DAYS)
         THEN /\ ResultFor(c).from_cache = TRUE
              /\ CarriesEntry(ResultFor(c), call.before, c)
         ELSE /\ ResultFor(c).error = ErrorText("no cache", <<>>)
              /\ NoDates(ResultFor(c))

\* a cache_only fetch of two codes: one served from its entry, with dates, the
\* other answered "no cache"
C1_Witness ==
  /\ call.op = "fetch_events_info_for_codes"
  /\ call.mode = CACHE_ONLY_MODE
  /\ \E c, d \in RequestedSet :
       /\ FreshBefore(c, MAX_CACHE_AGE_DAYS)
       /\ ~NoDates(call.val[c])
       /\ call.val[c].from_cache
       /\ ~FreshBefore(d, MAX_CACHE_AGE_DAYS)
       /\ call.val[d].error = ErrorText("no cache", <<>>)

\* C2: get_events_info in cache_first mode makes no lookup when the file holds
\* an entry for the normalized code at most recent_days old, and exactly one
\* lookup, of that code alone, otherwise; after a miss the file holds the
\* looked-up record under the normalized code when the call returns it with
\* from_cache = FALSE.  (A lookup is a call of get_events_by_openai; it sends
\* a request when the client is configured.)
C2_CacheFirstLooksUpOnMiss ==
  (call.op = "get_events_info" /\ call.mode = CACHE_FIRST_MODE /\ Requested # <<>>) =>
    /\ call.exc = None
    /\ IF FreshBefore(Requested[1], call.recent_days)
       THEN /\ call.lookups = <<>>
            /\ call.writes = <<>>
            /\ cache_file = call.before
            /\ call.val.from_cache = TRUE
            /\ CarriesEntry(call.val, call.before, Requested[1])
       ELSE /\ call.lookups = <<Lookup("single", Requested, call.env[1].available)>>
            /\ call.writes = Requested
            /\ Wrote(Requested[1])
            /\ call.val.from_cache = FALSE

\* a miss on an entry that is too old: one request sent, its dates written
C2_Witness ==
  /\ call.op = "get_events_info"
  /\ call.mode = CACHE_FIRST_MODE
  /\ Requested # <<>>
  /\ FreshBefore(Requested[1], MAX_CACHE_AGE_DAYS)
  /\ ~FreshBefore(Requested[1], call.recent_days)
  /\ call.lookups # <<>>
  /\ call.lookups[1].sent
  /\ ~NoDates(call.val)
  /\ Wrote(Requested[1])

\* the value the call returns when it starts with the file f
ValueOn(f) ==
  IF call.op = "get_events_info"
  THEN get_events_info(f, call.at, call.codes[1], call.mode, call.recent_days,
                       call.env[1]).val
  ELSE fetch_events_info_for_codes(f, call.at, call.codes, call.mode, call.recent_days,
                                   call.env[1]).val

\* C3: in always_ai mode every call of get_events_info for a code, and of
\* fetch_events_info_for_codes for a list with a code in it, makes the lookup
\* for all its codes and overwrites the entry of each, and what it returns is
\* what it returns with no cache file at all: nothing of it comes from the
\* cache.
C3_AlwaysAiLooksUpAndOverwrites ==
  (call.op # "idle" /\ call.mode = ALWAYS_AI_MODE /\ Requested # <<>>) =>
    /\ call.exc = None
    /\ Len(call.lookups) = 1
    /\ call.lookups[1].codes = Requested
    /\ call.lookups[1].sent = call.env[1].available
    /\ call.writes = Requested
    /\ \A c \in RequestedSet : Wrote(c) /\ ResultFor(c).from_cache = FALSE
    /\ call.val = ValueOn(AbsentFile)

\* an always_ai fetch of two codes that both had entries fresh enough for
\* cache_first
C3_Witness ==
  /\ call.op = "fetch_events_info_for_codes"
  /\ call.mode = ALWAYS_AI_MODE
  /\ Len(Requested) = 2
  /\ \A c \in RequestedSet : FreshBefore(c, RECENT_CACHE_DAYS) /\ Wrote(c)
  /\ call.lookups[1].sent

\* C4: fetch_events_info_for_codes in cache_first mode asks the lookup for
\* exactly the normalized codes with no entry at most recent_days old, and
\* makes no lookup when there is none; a code with such an entry is returned
\* from it with from_cache = TRUE; every requested code has a record in the
\* mapping.
C4_FetchCacheFirstAsksForMisses ==
  (call.op = "fetch_events_info_for_codes" /\ call.mode = CACHE_FIRST_MODE) =>
    /\ call.exc = None
    /\ (Misses = <<>> => call.lookups = <<>> /\ cache_file = call.before)
    /\ (Misses # <<>> => Len(call.lookups) = 1 /\ call.lookups[1].codes = Misses)
    /\ DOMAIN call.val = RequestedSet
    /\ call.writes = Misses
    /\ \A c \in RequestedSet :
         IF FreshBefore(c, call.recent_days)
         THEN call.val[c].from_cache = TRUE /\ CarriesEntry(call.val[c], call.before, c)
         ELSE call.val[c].from_cache = FALSE /\ Wrote(c)

\* c1 fresh in the cache and c2 not: one request, for c2 alone, and both in
\* the mapping
C4_Witness ==
  /\ call.op = "fetch_events_info_for_codes"
  /\ call.mode = CACHE_FIRST_MODE
  /\ Len(Requested) = 2
  /\ FreshBefore(Requested[1], call.recent_days)
  /\ ~FreshBefore(Requested[2], call.recent_days)
  /\ call.lookups = <<Lookup("single", <<Requested[2]>>, TRUE)>>
  /\ DOMAIN call.val = RequestedSet
  /\ ~NoDates(call.val[Requested[1]])

\* the codes a fetch has to look up, by its mode
NeedLookup ==
  IF call.mode = ALWAYS_AI_MODE THEN Requested
  ELSE IF call.mode = CACHE_FIRST_MODE THEN Misses
  ELSE <<>>

\* C5: one fetch_events_info_for_codes makes at most one lookup, in every
\* mode: none when no code needs one, the single-code lookup when exactly one
\* code needs one, one batched lookup of all of them when two or more do.
C5_AtMostOneRequest ==
  call.op = "fetch_events_info_for_codes" =>
    /\ Len(call.lookups) <= 1
    /\ (Len(NeedLookup) = 0 => call.lookups = <<>>)
    /\ (Len(NeedLookup) = 1 =>
          call.lookups = <<Lookup("single", NeedLookup, call.env[1].available)>>)
    /\ (Len(NeedLookup) >= 2 =>
          call.lookups = <<Lookup("batch", NeedLookup, call.env[1].available)>>)

\* an always_ai fetch of MaxCodes raw codes, two of them distinct: one batched
\* request
C5_Witness ==
  /\ call.op = "fetch_events_info_for_codes"
  /\ call.mode = ALWAYS_AI_MODE
  /\ Len(call.codes) = MaxCodes
  /\ Len(Requested) >= 2
  /\ call.lookups = <<Lookup("batch", Requested, TRUE)>>

\* the request of the call raised
TransportFailed ==
  /\ call.op # "idle"
  /\ call.env # None
  /\ call.env[1].available
  /\ call.env[1].exc # None

\* the codes of the lookups of the call
LookedUp == UNION {{l.codes[i] : i \in 1..Len(l.codes)} :
                     l \in {call.lookups[j] : j \in 1..Len(call.lookups)}}

\* C7: when the request raises, in the single-code and in the batched lookup,
\* every code of that lookup gets a record whose error is the text of the
\* exception and that has no dates, and no exception reaches the caller of
\* get_events_info or fetch_events_info_for_codes.
C7_TransportErrorIsARecord ==
  TransportFailed =>
    /\ call.exc = None
    /\ LookedUp # {}
    /\ \A c \in LookedUp :
         /\ ResultFor(c).error = ErrorText("exception", call.env[1].exc[1])
         /\ NoDates(ResultFor(c))

\* a batched lookup of two codes that raised
C7_Witness ==
  /\ TransportFailed
  /\ call.lookups[1].kind = "batch"
  /\ Cardinality(LookedUp) = 2
  /\ \A c \in LookedUp : call.val[c].error = ErrorText("exception", Chars("timeout"))

\* the request of a batched lookup returned, and a requested code has an
\* error record for its line
LineFailed ==
  /\ call.op = "fetch_events_info_for_codes"
  /\ call.lookups # <<>>
  /\ call.lookups[1].kind = "batch"
  /\ call.env[1].available
  /\ call.env[1].exc = None
  /\ \E c \in LookedUp : c \in DOMAIN call.val /\ call.val[c].error # None

BatchFailed ==
  /\ TransportFailed
  /\ call.op = "fetch_events_info_for_codes"
  /\ call.lookups[1].kind = "batch"

\* C8, as stated: when the request of the batched lookup raises, the codes of
\* the batch are absent from the mapping; when only lines fail, every code
\* is in it.
C8_AsStated ==
  /\ BatchFailed => \A c \in LookedUp : c \notin DOMAIN call.val
  /\ LineFailed => LookedUp \subseteq DOMAIN call.val

\* C8: no requested code is ever dropped from the mapping: when the request
\* of the batched lookup raises, every code of the batch is in the mapping
\* with the record of that exception, as it is, with its error record, when
\* only lines fail.
C8_NoCodeIsDropped ==
  /\ BatchFailed =>
       /\ RequestedSet \subseteq DOMAIN call.val
       /\ \A c \in LookedUp : call.val[c].error = ErrorText("exception", call.env[1].exc[1])
  /\ LineFailed => RequestedSet \subseteq DOMAIN call.val

\* a cache_first fetch whose batch of two raised: both codes in the mapping
C8_Witness ==
  /\ BatchFailed
  /\ call.mode = CACHE_FIRST_MODE
  /\ Cardinality(LookedUp) = 2
  /\ LookedUp \subseteq DOMAIN call.val

\* the record the lookup of the call produced for the code c
LookupRecord(c) ==
  IF call.lookups[1].kind = "single" THEN get_events_by_openai(c, call.env[1]).val
  ELSE get_events_by_openai_batch(call.lookups[1].codes, call.env[1]).val[c]

\* C11, as stated: the quarter_events and the rights_event a lookup produced
\* for a code are in the entry set_cached_events stores for it (so that a
\* later cache hit returns them) and in the record the call returns.
C11_AsStated ==
  (call.op # "idle" /\ call.lookups # <<>> /\ call.exc = None) =>
    \A c \in {x \in LookedUp : LookupRecord(x).quarter_events # Some(EmptyDict)} :
      /\ ResultFor(c).quarter_events = LookupRecord(c).quarter_events
      /\ ResultFor(c).rights_event = LookupRecord(c).rights_event
      /\ DictGet(cache_file.table[c], "quarter_events") = LookupRecord(c).quarter_events
      /\ DictGet(cache_file.table[c], "rights_event") = LookupRecord(c).rights_event

\* the call was made with a mode that is none of the three
UnknownMode ==
  /\ call.op # "idle"
  /\ call.mode \notin {CACHE_ONLY_MODE, CACHE_FIRST_MODE, ALWAYS_AI_MODE}

\* C13: with a mode that is none of the three, get_events_info returns for
\* its code, and fetch_events_info_for_codes for every normalized code, the
\* "unknown mode" error record without dates; nothing is raised, no lookup is
\* made and the cache file is as it was.  (For the empty code
\* get_events_info returns the "invalid code" record, also without dates.)
C13_UnknownModeIsARecord ==
  UnknownMode =>
    /\ call.exc = None
    /\ call.lookups = <<>>
    /\ call.writes = <<>>
    /\ cache_file = call.before
    /\ (call.op = "fetch_events_info_for_codes" => DOMAIN call.val = RequestedSet)
    /\ \A c \in RequestedSet :
         /\ ResultFor(c).error = ErrorText("unknown mode", <<>>)
         /\ NoDates(ResultFor(c))
    /\ (call.op = "get_events_info" /\ Requested = <<>> =>
          call.val.error = ErrorText("invalid code", <<>>) /\ NoDates(call.val))

\* a fetch of two codes, both with entries in the file, with an unknown mode
C13_Witness ==
  /\ UnknownMode
  /\ call.op = "fetch_events_info_for_codes"
  /\ Len(Requested) = 2
  /\ \A c \in RequestedSet :
       /\ FreshBefore(c, RECENT_CACHE_DAYS)
       /\ call.val[c].error = ErrorText("unknown mode", <<>>)

-----------------------------------------------------------------------------
(* The cache store on its own: callers of get_cached_events and            *)
(* set_cached_events, one call at a time, on a file that earlier versions  *)
(* and other tools may have written, while the clock runs.                 *)

\* a file whose text is not JSON
GarbageFile == [kind |-> "text", table |-> EmptyDict]

\* a timestamp string written age_ticks before the start, with the UTC offset
\* off (None: a naive one)
OldStamp(age_ticks, off) ==
  [form |-> "iso", wall |-> StartClock - age_ticks + OffsetOf([off |-> off]), off |-> off]

\* an entry with the timestamp field last_updated
StampedEntry(last_updated) ==
  [quarter_dates |-> Some([Q1 |-> Chars("2025-08-01")]),
   rights_date   |-> Some(Chars("2026-03-27")),
   last_updated  |-> last_updated]

\* entries found in a cache file: written at several ages and offsets, and
\* ones whose timestamp is missing, null, empty or not ISO
StoredEntries ==
  {EmptyDict,
   [rights_date |-> Some(Chars("2026-03-27"))],
   StampedEntry(None),
   StampedEntry(Some([form |-> "empty"])),
   StampedEntry(Some([form |-> "text"]))}
  \cup {StampedEntry(Some(OldStamp(timedelta(d), off))) :
          d \in {RECENT_CACHE_DAYS - 1, RECENT_CACHE_DAYS, RECENT_CACHE_DAYS + 1},
          off \in {None, Some(0), Some(1)}}
  \cup {StampedEntry(Some(OldStamp(timedelta(MAX_CACHE_AGE_DAYS) + 1, Some(0))))}

\* a file whose text held the table and is not JSON any more (cut short,
\* edited by hand): json.loads raises on it
DamagedFile(table) == [kind |-> "text", table |-> table]

\* an entry 30 days old
RecentEntry == StampedEntry(Some(OldStamp(timedelta(RECENT_CACHE_DAYS - 1), Some(0))))

StoreFiles ==
  {AbsentFile, GarbageFile, DamagedFile(DictSet(EmptyDict, Chars("7203"), RecentEntry))}
  \cup {JsonFile(DictSet(EmptyDict, Chars("7203"), e)) : e \in StoredEntries}
  \cup {JsonFile(DictSet(DictSet(EmptyDict, Chars("7203"), RecentEntry), Chars("0072"),
                         StampedEntry(Some([form |-> "text"]))))}

\* the codes callers pass, the empty one among them
StoreCodes == {Chars("7203"), Chars(" 7203 "), Chars("72"), <<>>}

\* the windows callers pass
MaxAges == {0, RECENT_CACHE_DAYS, MAX_CACHE_AGE_DAYS}

\* the records callers store: what a lookup returned, with and without dates
StoreEvents ==
  {get_events_by_openai(Chars("7203"), Replies(MsgStr(ReplyText))).val,
   _format_openai_missing}

StoreInit ==
  /\ cache_file \in StoreFiles
  /\ clock = StartClock
  /\ call = Idle

\* set_cached_events(code, events)
SetCachedEvents ==
  /\ call = Idle
  /\ \E code \in StoreCodes, events \in StoreEvents :
       /\ cache_file' = SetCachedFile(cache_file, clock, code, events)
       /\ call' = [op |-> "set_cached_events", code |-> code, events |-> events,
                   before |-> cache_file, at |-> clock,
                   val |-> Some(set_cached_events(cache_file, clock, code, events))]
  /\ UNCHANGED clock

\* get_cached_events(code, max_age_days), by a caller who has just stored
\* (last holds that call) or not
GetCachedEvents ==
  /\ call.op \in {"idle", "set_cached_events"}
  /\ \E code \in StoreCodes, max_age_days \in MaxAges :
       call' = [op |-> "get_cached_events", code |-> code, max_age_days |-> max_age_days,
                before |-> cache_file, at |-> clock,
                last |-> IF call = Idle THEN None ELSE Some(call),
                val |-> get_cached_events(cache_file, clock, code, max_age_days)]
  /\ UNCHANGED <<cache_file, clock>>

\* time passes, between calls as well
StoreTick ==
  /\ clock < StartClock + MaxTicks
  /\ clock' = clock + 1
  /\ UNCHANGED <<cache_file, call>>

StoreNext == SetCachedEvents \/ GetCachedEvents \/ TakeResult \/ StoreTick

StoreSpec == StoreInit /\ [][StoreNext]_vars

\* C9: get_cached_events(code, max_age_days) returns a record exactly when
\* the table has a non-empty entry under the normalized code whose
\* last_updated is there, is an ISO timestamp and, read as UTC when it has no
\* offset, is at most max_age_days before now; the record is the entry with
\* from_cache = TRUE, and in every other case the result is None.
C9_ReturnsExactlyFreshEntries ==
  call.op = "get_cached_events" =>
    IF FreshIn(call.before, call.at, _normalize_code(call.code), call.max_age_days)
    THEN /\ call.val # None
         /\ call.val[1] = DictSet(call.before.table[_normalize_code(call.code)],
                                  "from_cache", TRUE)
    ELSE call.val = None

\* the age of a stored timestamp at the time of the call, in ticks
AgeAtCall(stamp) == call.at - (stamp.wall - OffsetOf(stamp))

\* with max_age_days = 31: a naive timestamp 30 days old has been returned
C9_Witness ==
  /\ call.op = "get_cached_events"
  /\ call.max_age_days = RECENT_CACHE_DAYS
  /\ call.val # None
  /\ call.val[1].last_updated[1].off = None
  /\ AgeAtCall(call.val[1].last_updated[1]) = timedelta(RECENT_CACHE_DAYS - 1)

\* with max_age_days = 31: None for a timestamp 32 days old
C9_TooOld ==
  /\ call.op = "get_cached_events"
  /\ call.max_age_days = RECENT_CACHE_DAYS
  /\ call.val = None
  /\ call.before.kind = "json"
  /\ \E k \in DOMAIN call.before.table :
       /\ k = _normalize_code(call.code)
       /\ "last_updated" \in DOMAIN call.before.table[k]
       /\ call.before.table[k].last_updated # None
       /\ call.before.table[k].last_updated[1].form = "iso"
       /\ AgeAtCall(call.before.table[k].last_updated[1]) = timedelta(RECENT_CACHE_DAYS + 1)

\* get_cached_events(code, 0) right after set_cached_events of the same code
ReadBack ==
  /\ call.op = "get_cached_events"
  /\ call.max_age_days = 0
  /\ call.last # None
  /\ _normalize_code(call.last[1].code) = _normalize_code(call.code)

\* C10, as stated: set_cached_events(code, record) followed by
\* get_cached_events(code, max_age_days = 0) returns a record, with the
\* quarter_dates and the rights_date that were set, whatever the clock's
\* reading at the second call.
C10_AsStated ==
  ReadBack =>
    /\ call.val # None
    /\ call.val[1].quarter_dates = Some(OrEmptyDict(DictGet(call.last[1].events, "quarter_dates")))
    /\ call.val[1].rights_date = DictGet(call.last[1].events, "rights_date")

-----------------------------------------------------------------------------
(* Two set_cached_events calls at once (two sessions refreshing): each     *)
(* loads the whole table, sets its entry in its copy and saves the copy.   *)
(* Nothing in events_cache.py orders the steps of one call against those   *)
(* of the other.  call holds both writers; seen is the number of saves a   *)
(* writer's load came after, saved the order of the saves.                 *)

Writers == {1, 2}

Writer(code, events) ==
  [pc |-> "start", code |-> code, events |-> events, cache |-> EmptyDict,
   payload |-> EmptyDict, seen |-> 0]

\* the table with the entry set in what the file holds at the save: not the code
WrittenOverFile(cache, file, code, payload) ==
  DictSet(_load_cache(file), _normalize_code(code), payload)

\* the table a writer saves: its own copy with its entry set
WrittenTable(cache, file, code, payload) == DictSet(cache, _normalize_code(code), payload)

ConcInit ==
  /\ cache_file \in {AbsentFile, JsonFile(DictSet(EmptyDict, Chars("7203"), OldEntry(RECENT_CACHE_DAYS)))}
  /\ clock = StartClock
  /\ \E c1, c2 \in {Chars("7203"), Chars("72")}, e1, e2 \in StoreEvents :
       call = [op |-> "writers", w |-> <<Writer(c1, e1), Writer(c2, e2)>>, saved |-> <<>>]

\* events_cache.py:69-77: the load, and the payload built next
Load(i) ==
  /\ call.w[i].pc = "start"
  /\ call' = [call EXCEPT !.w[i].pc = "loaded",
                          !.w[i].cache = _load_cache(cache_file),
                          !.w[i].payload = Payload(call.w[i].events, clock),
                          !.w[i].seen = Len(call.saved)]
  /\ UNCHANGED <<cache_file, clock>>

\* events_cache.py:78-79: the entry set in the copy, and the save
Save(i) ==
  /\ call.w[i].pc = "loaded"
  /\ cache_file' = _save_cache(WrittenTable(call.w[i].cache, cache_file, call.w[i].code,
                                            call.w[i].payload))
  /\ call' = [call EXCEPT !.w[i].pc = "done", !.saved = Append(@, i)]
  /\ UNCHANGED clock

LoadStep == \E i \in Writers : Load(i)

SaveStep == \E i \in Writers : Save(i)

ConcNext == LoadStep \/ SaveStep \/ StoreTick

ConcSpec == ConcInit /\ [][ConcNext]_vars

BothSaved == call.op = "writers" /\ Len(call.saved) = 2

KeyOf(i) == _normalize_code(call.w[i].code)

\* C12: the last save wins: the final table is the last saver's copy with its
\* entry, whatever the other writer saved; when the calls did not interleave
\* (the second writer loaded after the first had saved), every written code
\* has its entry in the final table, the first writer's own unless the second
\* wrote the same code.  (That an interleaving loses a write is C12_Witness.)
C12_LastWriterWins ==
  BothSaved =>
    /\ cache_file.table = DictSet(call.w[call.saved[2]].cache, KeyOf(call.saved[2]),
                                  call.w[call.saved[2]].payload)
    /\ (call.w[call.saved[2]].seen = 1 =>
          /\ {KeyOf(1), KeyOf(2)} \subseteq DOMAIN cache_file.table
          /\ (KeyOf(1) # KeyOf(2) =>
                \A i \in Writers : cache_file.table[KeyOf(i)] = call.w[i].payload))

\* a lost update: both calls have saved, for different codes, and the final
\* table has no entry for the code the first saver wrote
C12_Witness ==
  /\ BothSaved
  /\ KeyOf(1) # KeyOf(2)
  /\ KeyOf(call.saved[1]) \notin DOMAIN cache_file.table
  /\ call.w[call.saved[2]].seen = 0

\* the same code written twice with interleaved steps: the entry of the first
\* saver is replaced by the one of the last
C12_SameCode ==
  /\ BothSaved
  /\ KeyOf(1) = KeyOf(2)
  /\ call.w[call.saved[2]].seen = 0
  /\ call.w[1].payload # call.w[2].payload
  /\ cache_file.table[KeyOf(1)] = call.w[call.saved[2]].payload

-----------------------------------------------------------------------------
(* The date parser on its own: _parse_date_text applied to dates written   *)
(* in the forms replies use, and to texts that hold no date.               *)

\* a text with its ASCII digits written as full-width digits
FullWidth(t) ==
  Tuple([i \in 1..Len(t) |->
           IF \E d \in 1..10 : DigitSeq[d] = t[i]
           THEN FullWidthDigitSeq[DigitValue(t[i]) + 1] ELSE t[i]])

\* the date y-m-d written in a form: "compact" yyyymmdd, "spaced" yyyy mm dd,
\* "kanji" with nen, gatsu, nichi, or with the separator "-", "/" or "."
WrittenDate(y, m, d, form, padded) ==
  CASE form = "compact" -> Pad(y, 4) \o Pad(m, 2) \o Pad(d, 2)
    [] form = "spaced"  -> Pad(y, 4) \o <<" ">> \o Num(m, padded) \o <<" ">> \o Num(d, padded)
    [] form = "kanji"   -> Pad(y, 4) \o <<Nen>> \o Num(m, padded) \o <<Gatsu>>
                           \o Num(d, padded) \o <<Nichi>>
    [] OTHER            -> Pad(y, 4) \o <<form>> \o Num(m, padded) \o <<form>> \o Num(d, padded)

DateForms == {"compact", "spaced", "kanji", "-", "/", "."}

\* the calendar dates written: ends of months, a leap day, one- and
\* two-digit months and days
CalendarDates ==
  {ymd \in {2024, 2025} \X {1, 2, 8, 12} \X {1, 9, 12, 29, 30, 31} :
     ValidDate(ymd[1], ymd[2], ymd[3])}

\* texts with no four-digit year followed by a month and a day
NoDateTexts ==
  {Jp("8M") \o <<"U+4E0A", "U+65EC">>,
   Jp("2025Y8M") \o <<"U+4E0A", "U+65EC">>,
   Jp("2025Y8M"),
   Jp("8M12D"),
   Chars("25/8/12"),
   Chars("TBD"),
   Sentinel}

DateInputs ==
  {[op |-> "text", dated |-> TRUE, y |-> ymd[1], m |-> ymd[2], d |-> ymd[3], form |-> form,
    text |-> IF fw THEN FullWidth(WrittenDate(ymd[1], ymd[2], ymd[3], form, padded))
             ELSE WrittenDate(ymd[1], ymd[2], ymd[3], form, padded)] :
     ymd \in CalendarDates, form \in DateForms, padded \in BOOLEAN, fw \in BOOLEAN}
  \cup {[op |-> "text", dated |-> FALSE, text |-> t] : t \in NoDateTexts}

DateInit ==
  /\ cache_file = AbsentFile
  /\ clock = StartClock
  /\ call \in DateInputs

\* _parse_date_text(text)
ParseDateText ==
  /\ call.op = "text"
  /\ call' = [op |-> "_parse_date_text", of |-> call, val |-> _parse_date_text(call.text)]
  /\ UNCHANGED <<cache_file, clock>>

DateNext == ParseDateText

DateSpec == DateInit /\ [][DateNext]_vars

\* the date y-m-d of the parsed text has been returned in ISO form
ParsedItsDate == call.val = Some(Strftime(call.of.y, call.of.m, call.of.d))

\* C15, as stated: a valid date written as a run of eight digits yyyymmdd or
\* as yyyy mm dd with spaces is returned by _parse_date_text as that date,
\* yyyy-mm-dd.
C15_AsStated ==
  (call.op = "_parse_date_text" /\ call.of.dated /\ call.of.form \in {"compact", "spaced"}) =>
    ParsedItsDate

\* C16: a valid date written with nen, gatsu, nichi or with "-", "/" or "."
\* between year, month and day, in half-width or full-width digits, month
\* and day with one or two digits, is returned by _parse_date_text as that
\* date, zero-padded yyyy-mm-dd; a text without a four-digit year followed by
\* month and day digits gives None.
C16_SeparatedDatesParse ==
  call.op = "_parse_date_text" =>
    /\ (call.of.dated /\ call.of.form \in {"kanji", "-", "/", "."} => ParsedItsDate)
    /\ (~call.of.dated => call.val = None)

\* 2025-08-12 parsed from full-width digits with nen, gatsu, nichi, the
\* month written with one digit
C16_Witness ==
  /\ call.op = "_parse_date_text"
  /\ call.of.dated
  /\ call.of.text = FullWidth(Jp("2025Y8M12D"))
  /\ call.val = Some(Chars("2025-08-12"))

\* None for a month and a part of it without a year
C16_NoDate ==
  /\ call.op = "_parse_date_text"
  /\ call.of.text = Jp("8M") \o <<"U+4E0A", "U+65EC">>
  /\ call.val = None

-----------------------------------------------------------------------------
(* The extractor on its own: _extract_event_dates applied to reply texts   *)
(* in the strict format the prompt asks for, each part with its own date,  *)
(* kind and url, and to texts that hold nothing.                           *)

\* the dates of the four quarters and of the rights day in the replies
PartDates == <<<<2025, 8, 12>>, <<2025, 11, 9>>, <<2026, 2, 1>>, <<2026, 5, 30>>,
               <<2026, 3, 27>>>>

PartUrl(i) == Chars("http") \o (IF i % 2 = 1 THEN <<"s">> ELSE <<>>) \o Chars("://a/") \o Pad(i, 1)

\* <date-text>(kind|url) with the full-width parentheses and bar
Annotated(date_text, kind, url) ==
  date_text \o <<FwLParen>> \o kind \o <<FwBar>> \o url \o <<FwRParen>>

\* one of the first four parts, the i-th
QuarterPart(i, form, kind) ==
  [y |-> PartDates[i][1], m |-> PartDates[i][2], d |-> PartDates[i][3],
   kind |-> kind, url |-> PartUrl(i),
   text |-> Annotated(WrittenDate(PartDates[i][1], PartDates[i][2], PartDates[i][3],
                                  form, FALSE), kind, PartUrl(i))]

\* the forms the date texts of the first four parts are written in
QuarterForms == {"kanji", "/", "compact"}

KindRows == {<<Zenkai, Zenkai, Yotei, Yotei>>, <<Yotei, Zenkai, Yotei, Yotei>>}

\* the grammars of the fifth part: annotated with a kind and a url, a bare
\* url in full-width or half-width parentheses, the date alone, the sentinel
RightsGrammars == {"yotei", "zenkai", "bare", "bare_halfwidth", "plain", "sentinel"}

RightsPart(grammar) ==
  LET date_text == WrittenDate(PartDates[5][1], PartDates[5][2], PartDates[5][3],
                               "kanji", FALSE)
  IN  [grammar |-> grammar, date_text |-> date_text, url |-> PartUrl(5),
       text |-> CASE grammar = "yotei"  -> Annotated(date_text, Yotei, PartUrl(5))
                  [] grammar = "zenkai" -> Annotated(date_text, Zenkai, PartUrl(5))
                  [] grammar = "bare"   -> date_text \o <<FwLParen>> \o PartUrl(5)
                                           \o <<FwRParen>>
                  [] grammar = "bare_halfwidth" ->
                                           date_text \o <<"(">> \o PartUrl(5) \o <<")">>
                  [] grammar = "plain"  -> date_text
                  [] OTHER              -> Sentinel]

\* the reply of four quarter parts, a fifth part and, or not, a sixth
StrictContent(form, kinds, grammar, sixth) ==
  LET q == Tuple([i \in 1..4 |-> QuarterPart(i, form, kinds[i])])
      rights == RightsPart(grammar)
  IN  [op |-> "content", shape |-> "strict", strict |-> TRUE, q |-> q, rights |-> rights,
       text |-> Join(Tuple([i \in 1..4 |-> q[i].text]) \o <<rights.text>>
                     \o (IF sixth THEN <<Chars("x")>> ELSE <<>>), ",")]

\* replies that hold nothing: empty, whitespace, the sentinel word
NothingTexts ==
  {<<>>, Chars(" "), <<"\n", "U+3000", " ">>, Sentinel, <<" ">> \o Sentinel \o <<"\n">>}

\* what one of the first four parts has in place of the annotation: the
\* date alone, an ASCII bar, another kind word, a url without a scheme
Breakages == {"plain", "ascii_bar", "other_kind", "no_scheme"}

BrokenPart(i, breakage) ==
  LET date_text == WrittenDate(PartDates[i][1], PartDates[i][2], PartDates[i][3],
                               "kanji", FALSE)
  IN  CASE breakage = "plain"      -> date_text
        [] breakage = "ascii_bar"  -> date_text \o <<FwLParen>> \o Yotei \o <<"|">>
                                      \o PartUrl(i) \o <<FwRParen>>
        [] breakage = "other_kind" -> Annotated(date_text, <<"U+78BA", "U+5B9A">>, PartUrl(i))
        [] OTHER                   -> Annotated(date_text, Yotei, Chars("a/") \o Pad(i, 1))

\* the reply whose j-th part is broken, its parts set apart by "," or ", "
BrokenContent(j, breakage, grammar, spaced) ==
  LET parts == Tuple([i \in 1..4 |-> IF i = j THEN BrokenPart(i, breakage)
                                     ELSE QuarterPart(i, "kanji", Yotei).text])
               \o <<RightsPart(grammar).text>>
  IN  [op |-> "content", shape |-> "broken", strict |-> FALSE, parts |-> parts,
       text |-> IF spaced
                THEN parts[1] \o Chars(" , ") \o Join(SubSeq(parts, 2, 5), ",") \o Chars(",x")
                ELSE Join(parts, ",")]

\* "text" in quotes
Quoted(text) == <<"\"">> \o text \o <<"\"">>

\* the JSON object that gives the first n quarters their dates, and the
\* rights date (None: null), written with or without blanks after ":" and
\* ",", the rights date first or last
JsonContent(n, rights, spaced, rights_first) ==
  LET blank == IF spaced THEN <<" ">> ELSE <<>>
      Member(key, value) == Quoted(key) \o <<":">> \o blank \o value
      quarters == Tuple([i \in 1..n |->
                    Member(LabelText(QUARTER_LABELS[i]),
                           Quoted(Strftime(PartDates[i][1], PartDates[i][2], PartDates[i][3])))])
      quarter_dates == Member(Chars("quarter_dates"),
                              <<"{">> \o Join(quarters, ",") \o <<"}">>)
      rights_date == Member(Chars("rights_date"),
                            IF rights = None THEN Chars("null") ELSE Quoted(rights[1]))
  IN  [op |-> "content", shape |-> "json", strict |-> FALSE, quarters |-> n,
       quarter_dates |-> [l \in {QUARTER_LABELS[i] : i \in 1..n} |->
                            LET i == CHOOSE i \in 1..n : QUARTER_LABELS[i] = l
                            IN  Strftime(PartDates[i][1], PartDates[i][2], PartDates[i][3])],
       rights_date |-> rights,
       text |-> <<"{">>
                \o (IF rights_first THEN rights_date \o <<",">> \o blank \o quarter_dates
                    ELSE quarter_dates \o <<",">> \o blank \o rights_date)
                \o <<"}">>]

ExtractInputs ==
  {StrictContent(form, kinds, grammar, sixth) :
     form \in QuarterForms, kinds \in KindRows, grammar \in RightsGrammars,
     sixth \in BOOLEAN}
  \cup {[op |-> "content", shape |-> "nothing", strict |-> FALSE, text |-> t] :
          t \in NothingTexts}
  \cup {JsonContent(n, rights, spaced, rights_first) :
          n \in 0..4, rights \in {None, Some(Chars("2026-03-27"))},
          spaced \in BOOLEAN, rights_first \in BOOLEAN}
  \cup {BrokenContent(j, breakage, grammar, spaced) :
          j \in 1..4, breakage \in Breakages, grammar \in {"yotei", "bare", "sentinel"},
          spaced \in BOOLEAN}

ExtractInit ==
  /\ cache_file = AbsentFile
  /\ clock = StartClock
  /\ call \in ExtractInputs

\* _extract_event_dates(content)
ExtractEventDatesOf ==
  /\ call.op = "content"
  /\ call' = [op |-> "_extract_event_dates", of |-> call,
              val |-> _extract_event_dates(call.text)]
  /\ UNCHANGED <<cache_file, clock>>

ExtractNext == ExtractEventDatesOf

ExtractSpec == ExtractInit /\ [][ExtractNext]_vars

Extracted == call.op = "_extract_event_dates"

\* C17, as stated: a fifth part <date-text>(yotei or zenkai|<url>) or
\* <date-text>(<url>) of a strict-format reply yields a rights_event whose
\* date is the ISO form of the date text, whose date_text is the date text
\* alone, whose source_url is the url, and which has no kind field.
C17_AsStated ==
  (Extracted /\ call.of.strict
     /\ call.of.rights.grammar \in {"yotei", "zenkai", "bare"}) =>
    /\ call.val.rights_event # None
    /\ call.val.rights_event[1].date
         = Strftime(PartDates[5][1], PartDates[5][2], PartDates[5][3])
    /\ call.val.rights_event[1].date_text = call.of.rights.date_text
    /\ call.val.rights_event[1].source_url = Some(call.of.rights.url)
    /\ "kind" \notin DOMAIN call.val.rights_event[1]

\* the bare grammar of the fifth part does yield the rights event with its
\* url; the annotated grammar keeps the whole part as the date text
C17_BareParsed ==
  /\ Extracted /\ call.of.strict
  /\ call.of.rights.grammar = "bare"
  /\ call.val.rights_event[1].date = Chars("2026-03-27")
  /\ call.val.rights_event[1].source_url = Some(PartUrl(5))

\* C18, as stated: for a reply of 5 or more non-empty comma-separated parts
\* whose first four are <date-text>(yotei or zenkai|<url>),
\* _extract_event_dates returns quarter_events for exactly the four labels
\* in order, each with the kind and source_url of its own part and with date
\* the ISO form of its date text.
C18_AsStated ==
  (Extracted /\ call.of.strict) =>
    /\ DOMAIN call.val.quarter_events = {QUARTER_LABELS[i] : i \in 1..4}
    /\ \A i \in 1..4 :
         /\ call.val.quarter_events[QUARTER_LABELS[i]].kind = call.of.q[i].kind
         /\ call.val.quarter_events[QUARTER_LABELS[i]].source_url = Some(call.of.q[i].url)
         /\ call.val.quarter_events[QUARTER_LABELS[i]].date
              = Strftime(call.of.q[i].y, call.of.q[i].m, call.of.q[i].d)

\* C20: content that is empty, whitespace only or the sentinel word alone
\* yields the record with empty quarter_dates and quarter_events and null
\* rights_date and rights_event, and the record carries no error.
C20_NothingGivesTheEmptyRecord ==
  (Extracted /\ call.of.shape = "nothing") =>
    /\ call.val.quarter_dates = EmptyDict
    /\ call.val.quarter_events = EmptyDict
    /\ call.val.rights_date = None
    /\ call.val.rights_event = None
    /\ "error" \notin DOMAIN call.val

\* the sentinel word alone has given the empty record
C20_Witness ==
  /\ Extracted
  /\ call.of.text = Sentinel
  /\ call.val = EmptyExtract

-----------------------------------------------------------------------------
(* The code normalizer on its own: _normalize_code applied to a raw code   *)
(* and then to its own result.                                             *)

MaxCodeLen == 5

\* characters of raw codes: digits, a full-width digit, a letter, blanks
CodeChars == {"7", "0", "U+FF11", "A", " ", "U+3000"}

RECURSIVE TextsOver(_, _)
TextsOver(chars, n) ==
  IF n = 0 THEN {<<>>}
  ELSE TextsOver(chars, n - 1)
       \cup {Append(t, c) : t \in {x \in TextsOver(chars, n - 1) : Len(x) = n - 1}, c \in chars}

NormInit ==
  /\ cache_file = AbsentFile
  /\ clock = StartClock
  /\ call \in {[op |-> "code", text |-> t] : t \in TextsOver(CodeChars, MaxCodeLen)}

\* _normalize_code(code)
NormalizeCode ==
  /\ call.op = "code"
  /\ call' = [op |-> "_normalize_code", of |-> call.text, val |-> _normalize_code(call.text)]
  /\ UNCHANGED <<cache_file, clock>>

\* _normalize_code(_normalize_code(code))
NormalizeAgain ==
  /\ call.op = "_normalize_code"
  /\ call' = [op |-> "again", of |-> call.of, val |-> call.val,
              again |-> _normalize_code(call.val)]
  /\ UNCHANGED <<cache_file, clock>>

NormNext == NormalizeCode \/ NormalizeAgain

NormSpec == NormInit /\ [][NormNext]_vars

\* text is whitespace, then core, then whitespace, and core neither
\* starts nor ends with whitespace
Trimmed(text, a, core) ==
  /\ core = <<>> \/ (core[1] \notin Whitespace /\ core[Len(core)] \notin Whitespace)
  /\ \A i \in 1..Len(text) : (i <= a \/ i > a + Len(core)) => text[i] \in Whitespace

\* val is the digit string core left-padded with zeros to at least 4 digits
ZeroPadded(core, val) ==
  /\ Len(val) = Max({4, Len(core)})
  /\ \A i \in 1..Len(val) :
       IF i > Len(val) - Len(core) THEN val[i] = core[i - (Len(val) - Len(core))]
       ELSE val[i] = "0"

\* C19: _normalize_code trims surrounding whitespace and left-pads a purely
\* numeric code with zeros to at least 4 digits, and applying it to its own
\* result changes nothing: normalize(normalize(x)) = normalize(x).
C19_NormalizeIsIdempotent ==
  /\ call.op \in {"_normalize_code", "again"} =>
       \E a \in 0..Len(call.of) : \E n \in 0..(Len(call.of) - a) :
         LET core == SubSeq(call.of, a + 1, a + n)
         IN  /\ Trimmed(call.of, a, core)
             /\ IF core # <<>> /\ \A i \in 1..Len(core) : core[i] \in Digits
                THEN ZeroPadded(core, call.val)
                ELSE call.val = core
  /\ call.op = "again" => call.again = call.val

\* " 7" has become "0007", and "0007" has stayed "0007"
C19_Witness ==
  /\ call.op = "again"
  /\ call.of = Chars(" 7")
  /\ call.val = Chars("0007")
  /\ call.again = Chars("0007")

-----------------------------------------------------------------------------
(* The two lookups on their own: get_events_by_openai and                  *)
(* get_events_by_openai_batch applied to replies whose lines are good or   *)
(* bad code by code.                                                       *)

LookupCodes == <<Chars("7203"), Chars("0072")>>

\* what the reply holds for one code: no line, a line without a colon, a
\* line under another code, a line of two values, of four values and an
\* empty one, of five values in the strict format, of five plain values, of
\* six values
LineKinds == {"absent", "no_colon", "other_code", "short", "four", "strict", "plain", "six"}

GoodKinds == {"strict", "plain", "six"}

\* the values of the line of the k-th code
LineFields(k, kind) ==
  LET strict == Tuple([i \in 1..4 |->
                         QuarterPart(i, IF k = 1 THEN "kanji" ELSE "/",
                                     IF i = k THEN Zenkai ELSE Yotei).text])
                \o <<RightsPart(IF k = 1 THEN "bare" ELSE "plain").text>>
      plain == Tuple([i \in 1..5 |-> <<IF k = 1 THEN "a" ELSE "b">> \o Pad(i, 1)])
  IN  CASE kind = "short"  -> SubSeq(plain, 1, 2)
        [] kind = "four"   -> SubSeq(strict, 1, 2) \o <<<<>>>> \o SubSeq(strict, 3, 4)
        [] kind = "six"    -> strict \o <<Chars("x")>>
        [] kind \in {"plain", "no_colon"} -> plain
        [] OTHER           -> strict

\* the line of the k-th code; none for "absent"
LineOf(k, kind) ==
  CASE kind = "absent"     -> <<>>
    [] kind = "no_colon"   -> <<LookupCodes[k] \o <<" ">> \o Join(LineFields(k, kind), ",")>>
    [] kind = "other_code" -> <<Chars("9999: ") \o Join(LineFields(k, kind), ",")>>
    [] OTHER               -> <<LookupCodes[k] \o Chars(": ") \o Join(LineFields(k, kind), ",")>>

\* non-empty replies from which the extractor takes nothing: no five
\* values, no JSON object, no date after a label
UnparseableTexts == {Chars("TBD"), Chars("a1,a2"), Jp("2025Y8M") \o <<"U+4E0A", "U+65EC">>}

\* a batched request for n codes and its reply, the lines in the order of
\* the codes or reversed, after a line of preface or not
BatchInputs(n) ==
  {[op |-> "batch", codes |-> SubSeq(LookupCodes, 1, n), kinds |-> kinds,
    content |-> MsgStr(Join((IF preface THEN <<Chars("results")>> ELSE <<>>)
                            \o (IF reversed
                                THEN (IF n = 2 THEN LineOf(2, kinds[2]) ELSE <<>>)
                                     \o LineOf(1, kinds[1])
                                ELSE LineOf(1, kinds[1])
                                     \o (IF n = 2 THEN LineOf(2, kinds[2]) ELSE <<>>)),
                            "\n"))] :
     kinds \in [1..n -> LineKinds], reversed \in BOOLEAN, preface \in BOOLEAN}

\* a request for one code and its reply
SingleInputs ==
  {[op |-> "single", code |-> LookupCodes[1], unparseable |-> TRUE, content |-> MsgStr(t)] :
     t \in UnparseableTexts}
  \cup {[op |-> "single", code |-> LookupCodes[1], unparseable |-> FALSE, content |-> c] :
          c \in {MsgNone, MsgStr(Sentinel), MsgStr(Join(LineFields(1, "strict"), ",")),
                 MsgList(<<None, Some(Join(LineFields(2, "strict"), ","))>>)}}

\* a batched request whose reply is one unparseable text
UnparseableBatches ==
  {[op |-> "batch", codes |-> LookupCodes, kinds |-> kinds, unparseable |-> TRUE,
    content |-> MsgStr(LookupCodes[1] \o Chars(": ") \o t)] :
     kinds \in {<<"short", "absent">>}, t \in UnparseableTexts \ {Chars("a1,a2")}}

\* a batched request whose reply has two lines for the first code and none
\* for the second
RepeatedLines ==
  {[op |-> "batch", codes |-> LookupCodes, repeated |-> kinds,
    content |-> MsgStr(Join(LineOf(1, kinds[1]) \o LineOf(1, kinds[2]), "\n"))] :
     kinds \in [1..2 -> {"short", "four", "strict", "plain"}]}

LookupInit ==
  /\ cache_file = AbsentFile
  /\ clock = StartClock
  /\ call \in BatchInputs(1) \cup BatchInputs(2) \cup SingleInputs \cup UnparseableBatches
              \cup RepeatedLines

\* get_events_by_openai(code) with the reply
GetEventsByOpenai ==
  /\ call.op = "single"
  /\ call' = [op |-> "get_events_by_openai", of |-> call,
              val |-> get_events_by_openai(call.code, Replies(call.content)).val]
  /\ UNCHANGED <<cache_file, clock>>

\* get_events_by_openai_batch(codes) with the reply
GetEventsByOpenaiBatch ==
  /\ call.op = "batch"
  /\ call' = [op |-> "get_events_by_openai_batch", of |-> call,
              val |-> get_events_by_openai_batch(call.codes, Replies(call.content)).val]
  /\ UNCHANGED <<cache_file, clock>>

LookupNext == GetEventsByOpenai \/ GetEventsByOpenaiBatch

LookupSpec == LookupInit /\ [][LookupNext]_vars

Batched == call.op = "get_events_by_openai_batch"

\* the record of the k-th code holds what the extractor takes from the
\* first five values of that code's own line, and no error
OwnLineRecord(k) ==
  LET extracted == _extract_event_dates(
                     Join(SubSeq(LineFields(k, call.of.kinds[k]), 1, 5), ","))
      record == call.val[call.of.codes[k]]
  IN  /\ record.error = None
      /\ record.quarter_dates = Some(extracted.quarter_dates)
      /\ record.quarter_events = Some(extracted.quarter_events)
      /\ record.rights_date = extracted.rights_date
      /\ record.rights_event = extracted.rights_event

\* C6: in a batched lookup whose reply has text, every requested code gets a
\* record; a code whose line is absent, has no matching "code:" prefix or
\* has fewer than 5 non-empty values gets a record with error set and no
\* dates, a code whose line has 5 values or more gets error = null and the
\* data of its own line, whatever the other lines are.
C6_BadLineFailsOnlyItsCode ==
  (Batched /\ "kinds" \in DOMAIN call.of /\ _collect_text_content(call.of.content) # <<>>) =>
    /\ DOMAIN call.val = {call.of.codes[k] : k \in 1..Len(call.of.codes)}
    /\ \A k \in 1..Len(call.of.codes) :
         IF call.of.kinds[k] \in GoodKinds THEN OwnLineRecord(k)
         ELSE /\ call.val[call.of.codes[k]].error
                   = ErrorText(IF call.of.kinds[k] \in {"short", "four"}
                               THEN "values missing" ELSE "data unreadable",
                               call.of.codes[k])
              /\ NoDates(call.val[call.of.codes[k]])

\* the first code's line has two values and the second code's line, which
\* comes first, is in the strict format: an error for the one, four
\* quarters for the other
C6_Witness ==
  /\ Batched
  /\ "kinds" \in DOMAIN call.of
  /\ call.of.kinds = <<"short", "strict">>
  /\ call.val[LookupCodes[1]].error = ErrorText("values missing", LookupCodes[1])
  /\ call.val[LookupCodes[2]].error = None
  /\ DOMAIN call.val[LookupCodes[2]].quarter_events[1] = {QUARTER_LABELS[i] : i \in 1..4}

\* C14, as stated: when the reply is non-empty text from which extraction
\* takes nothing (no strict or comma format, no JSON, no date after a
\* label), the record returned for the code carries a non-null error, in the
\* single-code lookup as in the batched one.
C14_AsStated ==
  /\ (call.op = "get_events_by_openai" /\ call.of.unparseable) => call.val.error # None
  /\ (Batched /\ "unparseable" \in DOMAIN call.of) =>
       \A c \in DOMAIN call.val : call.val[c].error # None

\* the batched lookup does report it: the line of an unparseable text has
\* too few values
C14_BatchReports ==
  /\ Batched /\ "unparseable" \in DOMAIN call.of
  /\ call.val[LookupCodes[1]].error = ErrorText("values missing", LookupCodes[1])
  /\ call.val[LookupCodes[2]].error = ErrorText("data unreadable", LookupCodes[2])

\* the codes that have an entry in the table _load_cache reads from a file
Entered(file) == DOMAIN _load_cache(file)

\* C21: get_cached_events never changes the cache table (an expired entry or
\* one with an unparsable timestamp stays on disk), and under sequential
\* operation no entry is ever removed: a normalized code that has an entry
\* has one after every later get_cached_events or set_cached_events call.
C21_EntriesStay ==
  [][/\ call'.op = "get_cached_events" => cache_file' = cache_file
     /\ Entered(cache_file) \subseteq Entered(cache_file')]_vars

\* None has been returned for an entry whose timestamp is not ISO, the entry
\* is still in the file, and so is the entry of the code stored before
C21_Witness ==
  /\ call.op = "get_cached_events"
  /\ call.val = None
  /\ call.last # None
  /\ _normalize_code(call.code) = Chars("0072")
  /\ cache_file.kind = "json"
  /\ {Chars("0072"), Chars("7203")} \subseteq Entered(cache_file)
  /\ cache_file.table[Chars("0072")].last_updated = Some([form |-> "text"])

-----------------------------------------------------------------------------
(* Further properties of the retrieval policy, of the cache store and of   *)
(* the lookups.                                                            *)

PolicyCall == call.op \in {"get_events_info", "fetch_events_info_for_codes"}

\* C22: a record returned by get_events_info or fetch_events_info_for_codes
\* has from_cache = FALSE exactly when a lookup was made for its code during
\* the call, and no entry of the cache file has a from_cache field.
C22_FromCacheTellsTheLookup ==
  PolicyCall =>
    /\ call.op = "get_events_info" => (call.val.from_cache = FALSE <=> call.lookups # <<>>)
    /\ call.op = "fetch_events_info_for_codes" =>
         \A c \in DOMAIN call.val : call.val[c].from_cache = FALSE <=> c \in LookedUp
    /\ \A k \in DOMAIN cache_file.table : "from_cache" \notin DOMAIN cache_file.table[k]

\* a cache_first fetch of two codes, one served from the file with
\* from_cache = TRUE, one looked up, stored and returned with FALSE
C22_Witness ==
  /\ call.op = "fetch_events_info_for_codes"
  /\ call.mode = CACHE_FIRST_MODE
  /\ \E c, d \in DOMAIN call.val :
       /\ call.val[c].from_cache /\ c \notin LookedUp
       /\ ~call.val[d].from_cache /\ d \in LookedUp
       /\ cache_file.table[d].last_updated = Some(isoformat(utcnow(call.at)))

\* the windows compared, from the shortest to the longest: none, the two
\* defaults and their neighbours
Windows ==
  <<0, RECENT_CACHE_DAYS - 1, RECENT_CACHE_DAYS, RECENT_CACHE_DAYS + 1,
    MAX_CACHE_AGE_DAYS, MAX_CACHE_AGE_DAYS + 1>>

\* what get_cached_events gives for a code and a window on the file and at
\* the time the call started with
CachedBefore(c, d) == get_cached_events(call.before, call.at, c, d)

\* what a call in another mode gives for the same code on the same file at
\* the same time
InMode(c, mode, env) ==
  get_events_info(call.before, call.at, c, mode, RECENT_CACHE_DAYS, env)

\* the same for the whole list of a fetch_events_info_for_codes call
ListInMode(mode, env) ==
  fetch_events_info_for_codes(call.before, call.at, call.codes, mode,
                              RECENT_CACHE_DAYS, env)

\* C30: at one instant, when get_cached_events(code, d) returns a record it
\* returns the same record for every longer window (each window of the list
\* hands its record on to the next longer one); so with the default
\* windows a code served from the cache in cache_first mode is served the
\* same record in cache_only mode, and a code answered "no cache" in
\* cache_only mode is looked up in cache_first mode.
C30_FreshnessIsMonotone ==
  PolicyCall =>
    \A c \in RequestedSet :
      /\ Let([i \in 1..Len(Windows) |-> CachedBefore(c, Windows[i])],
             LAMBDA cached :
               \A i \in 1..(Len(Windows) - 1) :
                 cached[i] # None => cached[i + 1] = cached[i])
      /\ ( /\ call.mode = CACHE_FIRST_MODE
           /\ call.recent_days = RECENT_CACHE_DAYS
           /\ c \notin LookedUp ) =>
           /\ InMode(c, CACHE_ONLY_MODE, Unavailable).val = ResultFor(c)
           /\ ResultFor(c).error # ErrorText("no cache", <<>>)
      /\ ( /\ call.mode = CACHE_ONLY_MODE
           /\ ResultFor(c).error = ErrorText("no cache", <<>>) ) =>
           \A env \in Envs :
             IF call.op = "get_events_info"
             THEN InMode(c, CACHE_FIRST_MODE, env).lookups # <<>>
             ELSE Let(ListInMode(CACHE_FIRST_MODE, env).lookups,
                      LAMBDA lookups :
                        \E l \in 1..Len(lookups) :
                          \E i \in 1..Len(lookups[l].codes) : lookups[l].codes[i] = c)

\* a cache_first call served from an entry exactly 31 days old, which the
\* window of 30 days refuses and every longer one returns unchanged
C30_Witness ==
  /\ PolicyCall
  /\ call.mode = CACHE_FIRST_MODE
  /\ call.recent_days = RECENT_CACHE_DAYS
  /\ \E c \in RequestedSet :
       /\ c \notin LookedUp
       /\ ResultFor(c).from_cache
       /\ CachedBefore(c, RECENT_CACHE_DAYS - 1) = None
       /\ CachedBefore(c, RECENT_CACHE_DAYS) # None
       /\ CachedBefore(c, MAX_CACHE_AGE_DAYS) = CachedBefore(c, RECENT_CACHE_DAYS)

\* a cache_only call answered "no cache" for an entry one tick beyond 183
\* days, for which a cache_first call makes a lookup
C30_NoCacheIsLookedUp ==
  /\ PolicyCall
  /\ call.mode = CACHE_ONLY_MODE
  /\ \E c \in RequestedSet :
       /\ c \in DOMAIN call.before.table
       /\ ResultFor(c).error = ErrorText("no cache", <<>>)
       /\ CachedBefore(c, MAX_CACHE_AGE_DAYS) = None
       /\ CachedBefore(c, MAX_CACHE_AGE_DAYS + 1) # None
       /\ InMode(c, CACHE_FIRST_MODE, Unavailable).lookups # <<>>

\* an entry between the two windows: cache_only serves it, cache_first with
\* the default window looks the code up
C30_BetweenTheWindows ==
  /\ PolicyCall
  /\ call.mode = CACHE_FIRST_MODE
  /\ call.recent_days = RECENT_CACHE_DAYS
  /\ \E c \in RequestedSet :
       /\ c \in LookedUp
       /\ CachedBefore(c, MAX_CACHE_AGE_DAYS) # None
       /\ InMode(c, CACHE_ONLY_MODE, Unavailable).val.from_cache
       /\ InMode(c, CACHE_ONLY_MODE, Unavailable).val.error # ErrorText("no cache", <<>>)

\* C23: every record _extract_event_dates returns has quarter_events empty or
\* with all four quarter labels; when one of the first four of five or more
\* parts fails the annotated grammar, quarter_events is empty, rights_event
\* is null, and quarter_dates and rights_date are the first five parts as
\* they were written.
C23_StrictIsAllOrNothing ==
  Extracted =>
    /\ DOMAIN call.val.quarter_events \in {{}, {QUARTER_LABELS[i] : i \in 1..4}}
    /\ call.of.shape = "broken" =>
         /\ call.val.quarter_events = EmptyDict
         /\ call.val.rights_event = None
         /\ DOMAIN call.val.quarter_dates = {QUARTER_LABELS[i] : i \in 1..4}
         /\ \A i \in 1..4 : call.val.quarter_dates[QUARTER_LABELS[i]] = call.of.parts[i]
         /\ call.val.rights_date = Some(call.of.parts[5])

\* the third part is a date alone, the other three are annotated: no
\* quarter event, the third quarter's date is that part
C23_Witness ==
  /\ Extracted
  /\ call.of.shape = "broken"
  /\ call.of.parts[3] = Jp("2026Y2M1D")
  /\ call.val.quarter_events = EmptyDict
  /\ call.val.quarter_dates["Q3"] = Jp("2026Y2M1D")
  /\ call.val.quarter_dates["Q1"] = call.of.parts[1]

\* C24, as stated: content that is a JSON object with the keys quarter_dates
\* and rights_date is decoded by the JSON fallback: _extract_event_dates
\* returns the object's quarter_dates and rights_date, also for an object
\* that lists all four quarters.
C24_AsStated ==
  (Extracted /\ call.of.shape = "json") =>
    /\ call.val.quarter_dates = call.of.quarter_dates
    /\ call.val.rights_date = call.of.rights_date
    /\ call.val.quarter_events = EmptyDict
    /\ call.val.rights_event = None

\* an object that lists three quarters is decoded
C24_ThreeQuartersDecoded ==
  /\ Extracted /\ call.of.shape = "json"
  /\ call.of.quarters = 3
  /\ call.val.quarter_dates = call.of.quarter_dates
  /\ call.val.rights_date = Some(Chars("2026-03-27"))

\* objects that list fewer than four quarters are decoded
C24_UpToThreeQuarters ==
  (Extracted /\ call.of.shape = "json" /\ call.of.quarters < 4) =>
    /\ call.val.quarter_dates = call.of.quarter_dates
    /\ call.val.rights_date = call.of.rights_date

-----------------------------------------------------------------------------
(* Requests repeated over the window of cache_first: a lookup, then the    *)
(* same codes asked for again a tick, a window less a tick, a window and a *)
(* window and a tick later.  The file starts with entries that have dates  *)
(* and are too old for cache_first.                                        *)

RetryCodes == <<Chars("0072"), Chars("7203")>>

RetryFile ==
  JsonFile([c \in {RetryCodes[i] : i \in 1..2} |-> OldEntry(MAX_CACHE_AGE_DAYS)])

RetryInit ==
  /\ cache_file = RetryFile
  /\ clock = StartClock
  /\ call = Idle

RetryGetEventsInfo ==
  /\ call = Idle
  /\ \E mode \in {CACHE_FIRST_MODE, ALWAYS_AI_MODE}, env \in Envs :
     \E out \in {get_events_info(cache_file, clock, RetryCodes[1], mode,
                                 RECENT_CACHE_DAYS, env)} :
       /\ cache_file' = out.file
       /\ call' = CallRecord("get_events_info", <<RetryCodes[1]>>, mode, RECENT_CACHE_DAYS,
                             env, out)
  /\ UNCHANGED clock

RetryFetch ==
  /\ call = Idle
  /\ \E mode \in {CACHE_FIRST_MODE, ALWAYS_AI_MODE}, env \in Envs :
     \E out \in {fetch_events_info_for_codes(cache_file, clock, RetryCodes, mode,
                                             RECENT_CACHE_DAYS, env)} :
       /\ cache_file' = out.file
       /\ call' = CallRecord("fetch_events_info_for_codes", RetryCodes, mode,
                             RECENT_CACHE_DAYS, env, out)
  /\ UNCHANGED clock

\* the clock's readings: the start and up to two ticks more, and the same
\* a window less a tick later
RetryWait ==
  /\ call = Idle
  /\ \E d \in {1, timedelta(RECENT_CACHE_DAYS) - 1} :
       /\ d = 1 => (clock - StartClock) % (timedelta(RECENT_CACHE_DAYS) - 1) < 2
       /\ clock + d <= StartClock + timedelta(RECENT_CACHE_DAYS) + 1
       /\ clock' = clock + d
  /\ UNCHANGED <<cache_file, call>>

RetryNext == RetryGetEventsInfo \/ RetryFetch \/ TakeResult \/ RetryWait

RetrySpec == RetryInit /\ [][RetryNext]_vars

\* the file the call started with holds for c an entry with an error that is
\* at most recent_days old
FailureCached(c) ==
  /\ c \in DOMAIN call.before.table
  /\ call.before.table[c].error # None
  /\ FreshBefore(c, call.recent_days)

\* C25: a failed lookup (collaborator unavailable, request raising, empty
\* reply, bad batch line) is cached like a successful one: the error record
\* is written with the call's time as last_updated in place of the earlier
\* entry with dates, and while it is at most recent_days old a cache_first
\* request for the code returns it from the cache and makes no lookup for it.
C25_FailureIsCached ==
  PolicyCall =>
    /\ \A c \in {x \in LookedUp : LookupRecord(x).error # None} :
         /\ Wrote(c)
         /\ cache_file.table[c].error = LookupRecord(c).error
         /\ cache_file.table[c].quarter_dates = Some(EmptyDict)
         /\ cache_file.table[c].rights_date = None
         /\ ResultFor(c).error = LookupRecord(c).error
    /\ call.mode = CACHE_FIRST_MODE =>
         \A c \in {x \in RequestedSet : FailureCached(x)} :
           /\ c \notin LookedUp
           /\ ResultFor(c).from_cache
           /\ ResultFor(c).error = call.before.table[c].error
           /\ CarriesEntry(ResultFor(c), call.before, c)
           /\ cache_file.table[c] = call.before.table[c]

\* a cache_first request exactly 31 days after the lookup found the
\* collaborator unavailable: the error record comes from the cache, no
\* lookup is made
C25_Witness ==
  /\ call.op = "get_events_info"
  /\ call.mode = CACHE_FIRST_MODE
  /\ FailureCached(RetryCodes[1])
  /\ AgeAtCall(call.before.table[RetryCodes[1]].last_updated[1]) = timedelta(RECENT_CACHE_DAYS)
  /\ call.val.error = ErrorText("OpenAI API unavailable", <<>>)
  /\ call.val.from_cache
  /\ call.lookups = <<>>

\* a tick later the entry is too old and the lookup is made again
C25_LookedUpAgain ==
  /\ call.op = "get_events_info"
  /\ call.mode = CACHE_FIRST_MODE
  /\ call.before.table[RetryCodes[1]].error # None
  /\ AgeAtCall(call.before.table[RetryCodes[1]].last_updated[1])
       = timedelta(RECENT_CACHE_DAYS) + 1
  /\ call.lookups # <<>>

-----------------------------------------------------------------------------
(* fetch_events_info_for_codes on lists with repeated, padded, unpadded    *)
(* and empty codes.                                                        *)

MaxListLen == 3

\* raw codes: a code, the same with blanks around it, a code short of four
\* digits and the same padded, the empty code and a blank one
ListedCodes == {Chars("7203"), Chars(" 7203 "), Chars("72"), Chars("0072"), <<>>, Chars(" ")}

KeysInit ==
  /\ cache_file \in {AbsentFile, RetryFile}
  /\ clock = StartClock
  /\ call = Idle

FetchListed ==
  /\ call = Idle
  /\ \E codes \in TextsOver(ListedCodes, MaxListLen), mode \in Modes,
        env \in {Unavailable, Replies(MsgStr(ReplyText))} :
     \E out \in {fetch_events_info_for_codes(cache_file, clock, codes, mode,
                                             RECENT_CACHE_DAYS, env)} :
       /\ cache_file' = out.file
       /\ call' = CallRecord("fetch_events_info_for_codes", codes, mode, RECENT_CACHE_DAYS,
                             env, out)
  /\ UNCHANGED clock

KeysNext == FetchListed

KeysSpec == KeysInit /\ [][KeysNext]_vars

\* the normalized forms of the codes of the list that are not empty
DistinctCodes == {_normalize_code(call.codes[i]) : i \in 1..Len(call.codes)} \ {<<>>}

\* C26: in every mode the keys of the mapping fetch_events_info_for_codes
\* returns are the distinct non-empty normalized codes of its list; empty
\* codes get no record; no code is looked up or written twice; a list with
\* no code or only empty ones gives the empty mapping, no lookup and no
\* write.
C26_KeysAreTheDistinctCodes ==
  call.op = "fetch_events_info_for_codes" =>
    /\ call.exc = None
    /\ DOMAIN call.val = DistinctCodes
    /\ \A l \in {call.lookups[j] : j \in 1..Len(call.lookups)} :
         /\ {l.codes[i] : i \in 1..Len(l.codes)} \subseteq DistinctCodes
         /\ \A i, j \in 1..Len(l.codes) : l.codes[i] = l.codes[j] => i = j
    /\ \A i, j \in 1..Len(call.writes) : call.writes[i] = call.writes[j] => i = j
    /\ DistinctCodes = {} =>
         /\ call.val = EmptyDict
         /\ call.lookups = <<>>
         /\ call.writes = <<>>
         /\ cache_file = call.before

\* "72", "" and "0072" in always_ai mode: one key, one code looked up
C26_Witness ==
  /\ call.op = "fetch_events_info_for_codes"
  /\ call.codes = <<Chars("72"), <<>>, Chars("0072")>>
  /\ call.mode = ALWAYS_AI_MODE
  /\ DOMAIN call.val = {Chars("0072")}
  /\ call.lookups[1].codes = <<Chars("0072")>>

\* a list of empty codes only: nothing returned, nothing done
C26_OnlyEmptyCodes ==
  /\ call.op = "fetch_events_info_for_codes"
  /\ call.codes = <<<<>>, Chars(" ")>>
  /\ call.mode = ALWAYS_AI_MODE
  /\ call.val = EmptyDict
  /\ call.lookups = <<>>

\* the kinds of the lines the reply of a batched request has for the k-th code
LinesFor(k) ==
  IF "kinds" \in DOMAIN call.of
  THEN (IF k <= Len(call.of.kinds) THEN {call.of.kinds[k]} ELSE {})
  ELSE IF k = 1 THEN {call.of.repeated[1], call.of.repeated[2]} ELSE {}

\* C27, as stated: in every record the batched lookup returns, an error
\* means no dates at all (quarter_dates and quarter_events empty, rights_date
\* and rights_event null), and no error means data taken from a line of at
\* least 5 values; also when the reply has several lines for one code.
C27_AsStated ==
  Batched =>
    \A k \in 1..Len(call.of.codes) :
      LET record == call.val[call.of.codes[k]]
      IN  /\ record.error # None => NoDates(record)
          /\ record.error = None => LinesFor(k) \cap GoodKinds # {}

\* with one line at most for each code, and with a short line before a good
\* one, the records are as claimed
C27_HoldsWithoutALaterShortLine ==
  (Batched /\ ("repeated" \in DOMAIN call.of => call.of.repeated[2] \in GoodKinds)) =>
    \A k \in 1..Len(call.of.codes) :
      LET record == call.val[call.of.codes[k]]
      IN  /\ record.error # None => NoDates(record)
          /\ record.error = None => LinesFor(k) \cap GoodKinds # {}

\* a line in the strict format and then a line of two values for the same
\* code: the record has the error of the second and the dates of the first
C27_ErrorWithDates ==
  /\ Batched
  /\ "repeated" \in DOMAIN call.of
  /\ call.of.repeated = <<"strict", "short">>
  /\ call.val[LookupCodes[1]].error = ErrorText("values missing", LookupCodes[1])
  /\ DOMAIN call.val[LookupCodes[1]].quarter_events[1] = {QUARTER_LABELS[i] : i \in 1..4}

\* C28: with a cache file that is absent or readable, set_cached_events(code,
\* record) changes only the entry under the normalized code: the table has
\* the codes it had and that one, the entries of all other codes are as
\* before, and raw codes with one normalized form write the same entry.
C28_OnlyItsEntryChanges ==
  (call.op = "set_cached_events" /\ call.before.kind # "text") =>
    /\ cache_file.kind = "json"
    /\ DOMAIN cache_file.table = Entered(call.before) \cup {_normalize_code(call.code)}
    /\ \A k \in Entered(call.before) \ {_normalize_code(call.code)} :
         cache_file.table[k] = call.before.table[k]
    /\ cache_file.table[_normalize_code(call.code)] = Payload(call.events, call.at)

\* "72" stored into a table with entries for 7203 and 0072: the entry of
\* 0072 is the new one, the entry of 7203 is as it was
C28_Witness ==
  /\ call.op = "set_cached_events"
  /\ call.code = Chars("72")
  /\ Entered(call.before) = {Chars("7203"), Chars("0072")}
  /\ DOMAIN cache_file.table = {Chars("7203"), Chars("0072")}
  /\ cache_file.table[Chars("7203")] = call.before.table[Chars("7203")]
  /\ cache_file.table[Chars("0072")] # call.before.table[Chars("0072")]
  /\ cache_file.table[Chars("0072")].last_updated = Some(isoformat(utcnow(call.at)))

\* C29: when the cache file exists and is not JSON, _load_cache gives the
\* empty table and nothing is raised: every get_cached_events returns None,
\* and set_cached_events rewrites the file as the table of the one entry
\* just written, so the entries the file held are lost.
C29_UnreadableFileIsAnEmptyTable ==
  /\ (call.op = "get_cached_events" /\ call.before.kind = "text") =>
       call.val = None /\ cache_file = call.before
  /\ (call.op = "set_cached_events" /\ call.before.kind = "text") =>
       /\ cache_file = JsonFile(DictSet(EmptyDict, _normalize_code(call.code),
                                        Payload(call.events, call.at)))
       /\ call.val = Some(DictSet(Payload(call.events, call.at), "from_cache", FALSE))

\* a damaged file that held a recent entry for 7203: "72" has been stored,
\* and the entry of 7203 is gone
C29_Witness ==
  /\ call.op = "set_cached_events"
  /\ call.before.kind = "text"
  /\ Chars("7203") \in DOMAIN call.before.table
  /\ call.code = Chars("72")
  /\ DOMAIN cache_file.table = {Chars("0072")}

\* None from the damaged file for the code whose recent entry it held
C29_NothingRead ==
  /\ call.op = "get_cached_events"
  /\ call.before.kind = "text"
  /\ _normalize_code(call.code) \in DOMAIN call.before.table
  /\ call.max_age_days = MAX_CACHE_AGE_DAYS
  /\ call.val = None

====
